---- MODULE Spec2Model ----
(***************************************************************************)
(* NashfyPitStop: the race-schedule acquisition chain of RealTimeData      *)
(* (public/main.js) together with the BackendClient schedule cache.        *)
(*                                                                         *)
(* Time is counted in minutes since 2025-01-01T00:00Z.  A race object is a *)
(* record with one field per property the code reads; "" and 0 stand for   *)
(* an absent (undefined) property.                                         *)
(***************************************************************************)
EXTENDS Integers, Sequences, FiniteSets, TLC

(***************************************************************************)
(* Bounds of the model                                                     *)
(***************************************************************************)
MaxCalls == 2      \* loadRaceSchedule calls in one behaviour
MaxLen   == 2      \* longest race list a source returns
MaxTicks == 1      \* clock advances in one behaviour
MaxNews  == 5      \* longest list the news API returns
MaxPolls == 1      \* getNextRace requests of timer updates in flight

(***************************************************************************)
(* Program constants                                                       *)
(***************************************************************************)
DefaultYear   == 2025   \* loadRaceSchedule(year = 2025)
CacheDuration == 5      \* BackendClient.cache.cacheDuration, in minutes
SentinelYear  == 2099   \* new Date('2099-12-31')

(***************************************************************************)
(* Calendar                                                                *)
(***************************************************************************)
MinutesPerDay  == 24 * 60
MinutesPerYear == 365 * MinutesPerDay

NaN == -1                        \* Invalid Date / NaN
BadDate == -1                    \* a date string Date cannot parse ("TBC")

\* new Date("YYYY-MM-DD"): UTC midnight of day d of the model's calendar
\* (day 1 is 2025-01-01)
DateInstant(d) == (d - 1) * MinutesPerDay

\* a date property that holds a full ISO date-time ("2025-03-09T15:00:00Z",
\* as the events of renderMockSchedule do) is coded IsoDate(instant); the
\* codes below IsoBase are the days of date-only strings
IsoBase == 100000000
IsoDate(i) == IsoBase + i

\* new Date(date)
DateParse(d) == IF d = BadDate THEN NaN
                ELSE IF d >= IsoBase THEN d - IsoBase
                ELSE DateInstant(d)

\* new Date(date + "T" + time), time being "HH:MM:SSZ" (minutes past midnight);
\* a date that already carries a time gives an unparsable string
DateTimeParse(d, t) == IF d = BadDate \/ d >= IsoBase THEN NaN
                       ELSE DateInstant(d) + t

\* Date.prototype.getFullYear: the year of the instant in local time
FullYear(i, off) == IF i = NaN THEN NaN
                    ELSE DefaultYear + ((i + off) \div MinutesPerYear)

Years == {DefaultYear, DefaultYear + 1}

(***************************************************************************)
(* Race objects                                                            *)
(***************************************************************************)
Blank == [isNull |-> FALSE,
          raceName |-> "", name |-> "", grandPrix |-> "", title |-> "",
          circuit |-> "",
          country |-> "", circuitCountry |-> "", locCountry |-> "",
          location |-> "",
          locality |-> "", circuitLocality |-> "", locCity |-> "",
          trackLocation |-> "",
          round |-> 0, roundNumber |-> 0,
          date |-> 0, time |-> 0, raceDate |-> 0, raceTime |-> 0,
          startDate |-> 0, startTime |-> 0, datetime |-> 0, year |-> 0]

\* a null element of a race array
NullRace == [Blank EXCEPT !.isNull = TRUE]

\* the shape of public/data/race-schedule.json: separate date and time
RaceA == [Blank EXCEPT !.round = 1, !.raceName = "Bahrain Grand Prix",
                       !.country = "Bahrain", !.locality = "Sakhir",
                       !.date = 68, !.time = 900]
\* a combined datetime only ("2025-03-08T17:00:00Z")
RaceB == [Blank EXCEPT !.name = "Saudi Arabian Grand Prix",
                       !.locCountry = "Saudi Arabia",
                       !.datetime = DateInstant(67) + 1020]
\* a placeholder raceName before a real name, a date of the next season
RaceC == [Blank EXCEPT !.raceName = "Unknown",
                       !.name = "Australian Grand Prix",
                       !.country = "Australia", !.date = 365 + 75]
\* a placeholder name and no date at all
RaceD == [Blank EXCEPT !.raceName = "unknown", !.roundNumber = 4]
\* a date that does not parse
RaceE == [Blank EXCEPT !.title = "Miami Grand Prix", !.date = BadDate,
                       !.location = "USA"]
\* a season given by its year field only
RaceF == [Blank EXCEPT !.grandPrix = "Monaco Grand Prix",
                       !.year = DefaultYear + 1]

\* a combined datetime that does not parse
RaceG == [Blank EXCEPT !.name = "Qatar Grand Prix", !.country = "Qatar",
                       !.datetime = BadDate]

Races == {RaceA, RaceB, RaceC, RaceD, RaceE, RaceF, RaceG, NullRace}

RECURSIVE SeqsUpTo(_, _)
SeqsUpTo(S, n) ==
  IF n = 0 THEN {<<>>}
  ELSE LET shorter == SeqsUpTo(S, n - 1)
       IN  shorter \cup {Append(s, x) : s \in {t \in shorter : Len(t) = n - 1}, x \in S}

RaceLists == SeqsUpTo(Races, MaxLen)

\* the lists the sources of the state machine answer with
SampleLists ==
  {<<>>, <<RaceA>>, <<RaceC>>, <<RaceA, NullRace>>}

\* a JSON property that should hold a race array
Absent  == [kind |-> "absent", items |-> <<>>]    \* undefined
NotList == [kind |-> "object", items |-> <<>>]    \* a truthy non-array
ListOf(s) == [kind |-> "list", items |-> s]

HasNull(s) == \E i \in 1..Len(s) : s[i].isNull

VARIABLES
  listEl,        \* the page has the #scheduleList element (and its heading)
  tz,            \* offset of the browser's local time from UTC, in minutes
  now,           \* Date.now()
  ticks,         \* clock advances so far
  cache,         \* BackendClient.cache: raceSchedule and cacheTime
  pc,            \* position of each loadRaceSchedule call
  year,          \* the year argument of each call in progress
  trace,         \* per call in progress: what happened to each tier, in order
  scheduleList,  \* content of #scheduleList
  heading,       \* year shown in the schedule heading, 0 before any render
  seasonSelect,  \* value of the #seasonSelect control
  input,         \* the response under study, when one is fixed in advance
  last,          \* the call that ended last: its year, its dataSource, the
                 \* list it accepted, the list it rendered, and its trace
  event,         \* one race object under study and its position in the list
  shown,         \* what renderSchedule derives from it
  again,         \* what renderSchedule derives from that result in turn
  weather,       \* loadWeather: its position, the answer it got, the element
  news,          \* loadNews: its position, the answer it got, the carousel
  countdown,     \* #nextRaceCountdown and #nextRaceName: presence and text
  countdownInterval,  \* this.countdownInterval: 0 or the handle of a timer
  timers,        \* the interval timers of the countdown that are active
  polls,         \* backend.getNextRace() requests of timer updates in flight
  countdownCall, \* per load: the startRaceCountdown call it made
  sanity,        \* the SanityClient: whether its script is loaded, its token
  joinForm,      \* JoinClubForm.handleSubmit: its position and what the user saw
  quiz,          \* QuizSystem: the score, the buttons and the result text
  navigation,    \* Navigation: currentSection, the hidden sections, the hash
  f1News,        \* BlogPage.loadF1News: its position and the three views
  venues         \* RealTimeData.loadVenues: pending calls and #venuesList

vars == <<listEl, tz, now, ticks, cache, pc, year, trace,
          scheduleList, heading, seasonSelect, input, last,
          event, shown, again, weather, news,
          countdown, countdownInterval, timers, polls, countdownCall,
          sanity, joinForm, quiz, navigation, f1News, venues>>

\* the state of the rest of the page: the form, the quiz, the router, the
\* news tab and the venues
pageVars == <<sanity, joinForm, quiz, navigation, f1News, venues>>

\* the state no schedule load touches
otherVars == <<event, shown, again, weather, news,
               countdown, countdownInterval, timers, polls, pageVars>>

Calls == 1..MaxCalls

\* local time zones the page is opened in (EAT)
LocalOffsets == {3 * 60}

(***************************************************************************)
(* Pure helpers of RealTimeData                                            *)
(***************************************************************************)
\* a || b for strings: the first truthy (non-empty) operand
Or2(a, b) == IF a # "" THEN a ELSE b

\* mutant: the combined datetime is preferred to the separate fields
parseRaceDate_DatetimeFirst(r) ==
  IF r.datetime # 0 THEN
         (IF r.datetime = BadDate THEN NaN ELSE r.datetime - tz)
  ELSE IF r.date # 0 /\ r.time # 0 THEN DateTimeParse(r.date, r.time)
  ELSE IF r.date # 0 THEN DateParse(r.date)
  ELSE IF r.raceDate # 0 /\ r.raceTime # 0 THEN DateTimeParse(r.raceDate, r.raceTime)
  ELSE IF r.raceDate # 0 THEN DateParse(r.raceDate)
  ELSE IF r.startDate # 0 /\ r.startTime # 0 THEN DateTimeParse(r.startDate, r.startTime)
  ELSE IF r.startDate # 0 THEN DateParse(r.startDate)
  ELSE DateInstant((SentinelYear - DefaultYear) * 365 + 365)

\* parseRaceDate(race)
parseRaceDate(r) ==
  IF r.date # 0 /\ r.time # 0 THEN DateTimeParse(r.date, r.time)
  ELSE IF r.date # 0 THEN DateParse(r.date)
  ELSE IF r.raceDate # 0 /\ r.raceTime # 0 THEN DateTimeParse(r.raceDate, r.raceTime)
  ELSE IF r.raceDate # 0 THEN DateParse(r.raceDate)
  ELSE IF r.startDate # 0 /\ r.startTime # 0 THEN DateTimeParse(r.startDate, r.startTime)
  ELSE IF r.startDate # 0 THEN DateParse(r.startDate)
  \* the zone suffix is stripped, so the text is read as local time
  ELSE IF r.datetime # 0 THEN
         (IF r.datetime = BadDate THEN NaN ELSE r.datetime - tz)
  ELSE DateInstant((SentinelYear - DefaultYear) * 365 + 365)

\* new Date().getFullYear()
currentYear == FullYear(now, tz)

\* extractYearFromRace(race)
extractYearFromRace(r) ==
  IF r.date # 0 THEN FullYear(DateParse(r.date), tz)
  ELSE IF r.raceDate # 0 THEN FullYear(DateParse(r.raceDate), tz)
  ELSE IF r.startDate # 0 THEN FullYear(DateParse(r.startDate), tz)
  ELSE IF r.year # 0 THEN r.year
  ELSE currentYear

\* mutant: the list passes the filter whole
FilterByYear_All(s, y) == s

\* races.filter(race => extractYearFromRace(race) === year); both branches of
\* the code's if/else compute this, since currentYear === year in the second
FilterByYear(s, y) == SelectSeq(s, LAMBDA r : extractYearFromRace(r) = y)

\* the name looked up by the plausibility check of the secondary source
checkName(r) == Or2(r.raceName, Or2(r.name, Or2(r.grandPrix, r.title)))

\* mutant: the lower-case placeholder is not recognised
nameOk_CaseBlind(r) == checkName(r) # "" /\ checkName(r) # "Unknown"

nameOk(r) == checkName(r) # "" /\ checkName(r) # "Unknown" /\ checkName(r) # "unknown"

\* races.some(...): stops at the first element for which the callback
\* returns true, and throws at a null element it reaches
RECURSIVE someValid(_)
someValid(s) ==
  IF s = <<>> THEN "false"
  ELSE IF Head(s).isNull THEN "throws"
  ELSE IF nameOk(Head(s)) THEN "true"
  ELSE someValid(Tail(s))

(***************************************************************************)
(* Array.prototype.sort with the comparator dateA - dateB                  *)
(***************************************************************************)
\* the comparator's result, NaN taken as 0
cmpLess(a, b) ==
  LET da == parseRaceDate(a)  db == parseRaceDate(b)
  IN  da # NaN /\ db # NaN /\ da < db

RECURSIVE insertSorted(_, _)
insertSorted(s, x) ==
  IF s = <<>> THEN <<x>>
  ELSE IF cmpLess(x, s[Len(s)]) THEN Append(insertSorted(SubSeq(s, 1, Len(s) - 1), x), s[Len(s)])
  ELSE Append(s, x)

RECURSIVE stableSort(_)
stableSort(s) ==
  IF s = <<>> THEN <<>>
  ELSE insertSorted(stableSort(SubSeq(s, 1, Len(s) - 1)), s[Len(s)])

\* the comparator is consistent unless an invalid date sits between two
\* different valid ones (it compares equal to both)
consistentCmp(s) ==
  ~ \E i, j, k \in 1..Len(s) :
       /\ parseRaceDate(s[i]) = NaN
       /\ parseRaceDate(s[j]) # NaN /\ parseRaceDate(s[k]) # NaN
       /\ parseRaceDate(s[j]) # parseRaceDate(s[k])

Perms(s) ==
  {[i \in 1..Len(s) |-> s[p[i]]] :
     p \in {q \in [1..Len(s) -> 1..Len(s)] :
              \A i, j \in 1..Len(s) : i # j => q[i] # q[j]}}

\* the orders races.sort may leave the array in: the stable order for a
\* consistent comparator, an implementation-defined one otherwise
sortOutcomes(s) == IF consistentCmp(s) THEN {stableSort(s)} ELSE Perms(s)

(***************************************************************************)
(* Rendering                                                               *)
(***************************************************************************)
OrNum(a, b) == IF a # 0 THEN a ELSE b

\* race.location as text: a flat string, or an object (with country or city)
\* that `${...}` prints as "[object Object]"
locationValue(r) ==
  IF r.location # "" THEN r.location
  ELSE IF r.locCountry # "" \/ r.locCity # "" THEN "[object Object]"
  ELSE ""

\* mutant: location.country is not looked at
card_NoLocationCountry(r, index) ==
  LET raceDate == parseRaceDate(r)
      isPast   == raceDate # NaN /\ raceDate < now
  IN  [round    |-> OrNum(r.round, OrNum(r.roundNumber, index + 1)),
       status   |-> IF isPast THEN "Done" ELSE "Upcoming",
       country  |-> Or2(r.country, Or2(r.circuitCountry,
                      Or2(locationValue(r), "Unknown"))),
       locality |-> Or2(r.locality, Or2(r.circuitLocality, Or2(r.locCity,
                      Or2(r.trackLocation, r.circuit)))),
       name     |-> Or2(r.raceName, Or2(r.name, Or2(r.grandPrix, Or2(r.title,
                      Or2(r.circuit, "Race " \o ToString(index + 1)))))),
       instant  |-> raceDate]

\* mutant: the generic name field is not looked at
card_NoName(r, index) ==
  LET raceDate == parseRaceDate(r)
      isPast   == raceDate # NaN /\ raceDate < now
  IN  [round    |-> OrNum(r.round, OrNum(r.roundNumber, index + 1)),
       status   |-> IF isPast THEN "Done" ELSE "Upcoming",
       country  |-> Or2(r.country, Or2(r.circuitCountry, Or2(r.locCountry,
                      Or2(locationValue(r), "Unknown")))),
       locality |-> Or2(r.locality, Or2(r.circuitLocality, Or2(r.locCity,
                      Or2(r.trackLocation, r.circuit)))),
       name     |-> Or2(r.raceName, Or2(r.grandPrix, Or2(r.title,
                      Or2(r.circuit, "Race " \o ToString(index + 1))))),
       instant  |-> raceDate]

\* mutant: the status is taken at the time the page was opened
card_StatusAtOpen(r, index) ==
  LET raceDate == parseRaceDate(r)
      isPast   == raceDate # NaN /\ raceDate < DateInstant(68) + 898
  IN  [round    |-> OrNum(r.round, OrNum(r.roundNumber, index + 1)),
       status   |-> IF isPast THEN "Done" ELSE "Upcoming",
       country  |-> Or2(r.country, Or2(r.circuitCountry, Or2(r.locCountry,
                      Or2(locationValue(r), "Unknown")))),
       locality |-> Or2(r.locality, Or2(r.circuitLocality, Or2(r.locCity,
                      Or2(r.trackLocation, r.circuit)))),
       name     |-> Or2(r.raceName, Or2(r.name, Or2(r.grandPrix, Or2(r.title,
                      Or2(r.circuit, "Race " \o ToString(index + 1)))))),
       instant  |-> raceDate]

\* one card of renderSchedule; index counts from 0
card(r, index) ==
  LET raceDate == parseRaceDate(r)
      isPast   == raceDate # NaN /\ raceDate < now
  IN  [round    |-> OrNum(r.round, OrNum(r.roundNumber, index + 1)),
       status   |-> IF isPast THEN "Done" ELSE "Upcoming",
       country  |-> Or2(r.country, Or2(r.circuitCountry, Or2(r.locCountry,
                      Or2(locationValue(r), "Unknown")))),
       locality |-> Or2(r.locality, Or2(r.circuitLocality, Or2(r.locCity,
                      Or2(r.trackLocation, r.circuit)))),
       name     |-> Or2(r.raceName, Or2(r.name, Or2(r.grandPrix, Or2(r.title,
                      Or2(r.circuit, "Race " \o ToString(index + 1)))))),
       instant  |-> raceDate]

renderCards(sorted) == [i \in 1..Len(sorted) |-> card(sorted[i], i - 1)]

\* the cards of renderMockSchedule
mockCard(rnd, nm, ctry, day, minute) ==
  [round |-> rnd, status |-> "", country |-> ctry, locality |-> "",
   name |-> nm, instant |-> DateInstant(day) + minute]

\* mutant: the third fallback event repeats the country of the second
mockRaces_Repeated ==
  << mockCard(1, "Bahrain Grand Prix", "Bahrain", 68, 15 * 60),
     mockCard(2, "Saudi Arabian Grand Prix", "Saudi Arabia", 82, 17 * 60),
     mockCard(3, "Australian Grand Prix", "Saudi Arabia", 96, 6 * 60) >>

mockRaces ==
  << mockCard(1, "Bahrain Grand Prix", "Bahrain", 68, 15 * 60),
     mockCard(2, "Saudi Arabian Grand Prix", "Saudi Arabia", 82, 17 * 60),
     mockCard(3, "Australian Grand Prix", "Australia", 96, 6 * 60) >>

Initial == [kind |-> "initial", cards |-> <<>>]   \* the static page
Loading == [kind |-> "loading", cards |-> <<>>]   \* "Loading schedule..."
NoRaces == [kind |-> "none", cards |-> <<>>]      \* "No races found ..."
Cards(cs) == [kind |-> "cards", cards |-> cs]     \* renderSchedule
Mock      == [kind |-> "mock", cards |-> mockRaces]

(***************************************************************************)
(* Responses of the three sources                                          *)
(***************************************************************************)
\* net: "error" (fetch rejects), "http" (status not ok), "badjson" (json()
\* rejects), "null" (the body is JSON null), "ok" (the body is an object or
\* an array)
Nets == {"error", "http", "badjson", "null", "ok"}

\* primary backend: {success, races, year}
PrimaryResp(n, su, rs, yr) == [net |-> n, success |-> su, races |-> rs, year |-> yr]
NoResp == PrimaryResp("none", FALSE, Absent, 0)

PrimaryRaceVals ==
  {Absent, ListOf(<<>>), ListOf(<<RaceA>>), ListOf(<<NullRace>>)}

PrimaryResponses ==
  {PrimaryResp(n, FALSE, Absent, 0) : n \in Nets \ {"ok"}}
    \cup {PrimaryResp("ok", su, rs, yr) :
            su \in BOOLEAN, rs \in PrimaryRaceVals, yr \in Years \cup {0}}

\* BackendClient.getRaceSchedule after the fetch: the data is returned (and
\* cached) when the response is ok, parses, and has success and races
backendReturns(resp) ==
  resp.net = "ok" /\ resp.success /\ resp.races.kind # "absent"

\* mutant: a schedule stored exactly five minutes ago still counts as fresh
cacheHit_Inclusive(y) ==
  /\ cache.raceSchedule # NoResp
  /\ cache.raceSchedule.year = y
  /\ cache.cacheTime # 0
  /\ now - cache.cacheTime <= CacheDuration

\* the cache check of BackendClient.getRaceSchedule
cacheHit(y) ==
  /\ cache.raceSchedule # NoResp
  /\ cache.raceSchedule.year = y
  /\ cache.cacheTime # 0
  /\ now - cache.cacheTime < CacheDuration

\* mutant: the length of the race list is not tested
primaryValid_AnyLength(data) ==
  data.success /\ data.races.kind = "list"

\* loadRaceSchedule's test of what the backend client returned
primaryValid(data) ==
  data.success /\ data.races.kind = "list" /\ Len(data.races.items) > 0

\* secondary API: a top-level array, or an object with candidate properties
SecondaryResp(n, tp, rs, dt, sc) ==
  [net |-> n, top |-> tp, races |-> rs, data |-> dt, schedule |-> sc]

\* mutant: an empty candidate is passed over
parseSecondary_SkipEmpty(b) ==
  IF b.top.kind = "list" /\ b.top.items # <<>> THEN b.top
  ELSE IF b.races.kind = "list" /\ b.races.items # <<>> THEN b.races
  ELSE IF b.data.kind = "list" /\ b.data.items # <<>> THEN b.data
  ELSE IF b.schedule.kind = "list" /\ b.schedule.items # <<>> THEN b.schedule
  ELSE Absent

\* the candidate probed for the race list; Absent: 'Invalid API response format'
parseSecondary(b) ==
  IF b.top.kind = "list" THEN b.top
  ELSE IF b.races.kind = "list" THEN b.races
  ELSE IF b.data.kind = "list" THEN b.data
  ELSE IF b.schedule.kind = "list" THEN b.schedule
  ELSE Absent

\* the secondary source is accepted
secondaryValid(b) ==
  /\ b.net = "ok"
  /\ parseSecondary(b).kind = "list"
  /\ Len(parseSecondary(b).items) > 0
  /\ someValid(parseSecondary(b).items) = "true"

\* bundled file: {races}
TertiaryResp(n, rs) == [net |-> n, races |-> rs]

\* mutant: the file's list goes through the plausibility check too
manualRaces_Checked(b) ==
  IF b.races.kind = "list" /\ someValid(b.races.items) = "true" THEN b.races
  ELSE ListOf(<<>>)

\* manualData.races || []
manualRaces(b) == IF b.races.kind = "absent" THEN ListOf(<<>>) ELSE b.races

tertiaryLoads(b) == b.net = "ok"

SecondaryResponses ==
  {SecondaryResp(n, Absent, Absent, Absent, Absent) : n \in Nets}
    \cup {SecondaryResp("ok", ListOf(l), Absent, Absent, Absent) : l \in SampleLists}
    \cup {SecondaryResp("ok", Absent, ListOf(l), Absent, Absent) : l \in SampleLists}
    \cup {SecondaryResp("ok", Absent, NotList, ListOf(<<>>), ListOf(l)) : l \in SampleLists}

TertiaryResponses ==
  {TertiaryResp(n, Absent) : n \in Nets}
    \cup {TertiaryResp("ok", NotList)}
    \cup {TertiaryResp("ok", ListOf(l)) : l \in SampleLists}

\* the backend echoes the requested year or leaves the year out
AnswersFor(y) == {r \in PrimaryResponses : r.year \in {y, 0}}

(***************************************************************************)
(* The state machine                                                       *)
(***************************************************************************)
Ev(t, e) == [tier |-> t, ev |-> e]

NoInput == [tier |-> 0, body |-> TertiaryResp("none", Absent)]

NoLast == [call |-> 0, how |-> "", year |-> 0, source |-> "unknown", op |-> "",
           accepted |-> Absent, races |-> <<>>, trace |-> <<>>]

\* the page is opened on 2025-03-09 at 14:58 UTC
PageOpened == DateInstant(68) + 898

\* no race object is under study
NoEvent == [race |-> Blank, index |-> 0]
NoShown == [round |-> 0, status |-> "", country |-> "", locality |-> "",
            name |-> "", instant |-> 0]
IdleEvent == event = NoEvent /\ shown = NoShown /\ again = NoShown

\* loadWeather and loadNews are not followed
NoAnswer == [net |-> "none"]
IdleFeeds ==
  /\ weather = [pc |-> "off", el |-> FALSE, resp |-> NoAnswer, text |-> ""]
  /\ news = [pc |-> "off", track |-> FALSE, resp |-> NoAnswer, slides |-> <<>>,
              live |-> FALSE, updated |-> FALSE, timers |-> 0]

\* a getNextRace answer: the race of the backend and its countdown
BackendRace(p, n, d) == [present |-> p, raceName |-> n, datetime |-> d]
NoBackendRace == BackendRace(FALSE, "", 0)
BackendCountdown(p, s) == [present |-> p, total_seconds |-> s]
NextRaceResp(n, su, r, cd) == [net |-> n, success |-> su, race |-> r, countdown |-> cd]
NoNextRace == NextRaceResp("none", FALSE, NoBackendRace, BackendCountdown(FALSE, 0))

\* what a startRaceCountdown call decided: the countdown of the backend, a
\* local countdown, 'Season Ended', or an exception
Decision(k, t) == [kind |-> k, target |-> t]
NoDecision == Decision("", 0)

\* order: the position of the call's decision among the decisions made
NoCall == [pc |-> "off", races |-> <<>>, now0 |-> 0, resp |-> NoNextRace,
           decision |-> NoDecision, order |-> 0]

\* a page without the countdown elements, on which startRaceCountdown has
\* no effect
IdleCountdown ==
  /\ countdown = [el |-> FALSE, nameEl |-> FALSE, text |-> "", name |-> ""]
  /\ countdownInterval = 0
  /\ timers = {}
  /\ polls = <<>>
  /\ countdownCall = [c \in Calls |-> NoCall]

\* a page with both countdown elements
PageWithCountdown ==
  /\ countdown = [el |-> TRUE, nameEl |-> TRUE, text |-> "", name |-> ""]
  /\ countdownInterval = 0
  /\ timers = {}
  /\ polls = <<>>
  /\ countdownCall = [c \in Calls |-> NoCall]

\* the questions of the quiz: the index of the right answer of each
questions == <<[correct |-> 1], [correct |-> 2], [correct |-> 1]>>

\* the indexes of the answers of a question
Answers == 0..2

NoQuiz == [box |-> FALSE, resultEl |-> FALSE, score |-> 0,
           disabled |-> [q \in 1..Len(questions) |-> FALSE],
           mark |-> [q \in 1..Len(questions) |-> [a \in Answers |-> ""]],
           picks |-> [q \in 1..Len(questions) |-> <<>>],
           result |-> ""]

NoSubmit == [form |-> FALSE, pending |-> 0, requests |-> 0, done |-> <<>>]

\* before DOMContentLoaded: nothing is constructed, the page is as its
\* markup gives it
NoNavigation == [pc |-> "off", currentSection |-> "home", hidden |-> {},
                 hash |-> "", route |-> "-", title |-> "", active |-> "",
                 menuHidden |-> TRUE]

NoF1News == [pc |-> "off", loading |-> FALSE, error |-> FALSE, list |-> FALSE,
             content |-> "static", retry |-> 0, resp |-> "none"]

NoVenues == [el |-> FALSE, timeouts |-> 0, loads |-> 0, content |-> "static",
             resp |-> "none"]

\* the form, the quiz, the router, the news tab and the venues are not followed
IdlePage ==
  /\ sanity = [defined |-> FALSE, writeToken |-> FALSE]
  /\ joinForm = NoSubmit
  /\ quiz = NoQuiz
  /\ navigation = NoNavigation
  /\ f1News = NoF1News
  /\ venues = NoVenues

Init ==
  /\ IdleEvent
  /\ IdleFeeds
  /\ IdleCountdown
  /\ IdlePage
  /\ listEl \in BOOLEAN
  /\ tz \in LocalOffsets
  /\ now = PageOpened
  /\ ticks = 0
  /\ cache = [raceSchedule |-> NoResp, cacheTime |-> 0]
  /\ pc = [c \in Calls |-> "idle"]
  /\ year = [c \in Calls |-> 0]
  /\ trace = [c \in Calls |-> <<>>]
  /\ scheduleList = Initial
  /\ heading = 0
  /\ seasonSelect = DefaultYear
  /\ input = NoInput
  /\ last = NoLast

\* mutant: the year filter runs whatever the source
filtered_All(src) == TRUE

\* the tiers whose year filter runs (main.js:933)
filtered(src) == src \in {"rapidapi", "manual-json"}

\* races.filter throws: races is not an array, or extractYearFromRace reads a
\* property of a null element
filterThrows(val, src) ==
  filtered(src) /\ (val.kind # "list" \/ HasNull(val.items))

\* the list after the year filter
finalRaces(val, y, src) ==
  IF filtered(src) THEN FilterByYear(val.items, y) ELSE val.items

\* call c ends: its locals are gone, what it did is kept in last
\* (how: "returned" or "threw")
\* mutant: the countdown is started whatever the year shown
startRaceCountdown_AnyYear(c, y, races) ==
  countdownCall' =
    IF countdown.el \/ countdown.nameEl
      THEN [countdownCall EXCEPT ![c] = [NoCall EXCEPT !.pc = "await",
                                                       !.races = races,
                                                       !.now0 = now]]
      ELSE countdownCall

\* loadRaceSchedule calls startRaceCountdown(races) when the year shown is
\* the current one: the call takes the time and awaits backend.getNextRace().
\* On a page without the countdown elements the call changes nothing and is
\* not followed.
startRaceCountdown(c, y, races) ==
  countdownCall' =
    IF y = currentYear /\ (countdown.el \/ countdown.nameEl)
      THEN [countdownCall EXCEPT ![c] = [NoCall EXCEPT !.pc = "await",
                                                       !.races = races,
                                                       !.now0 = now]]
      ELSE countdownCall

End(c, how, y, src, op, val, rs, tr) ==
  /\ pc' = [pc EXCEPT ![c] = "ended"]
  /\ year' = [year EXCEPT ![c] = 0]
  /\ trace' = [trace EXCEPT ![c] = <<>>]
  /\ last' = [call |-> c, how |-> how, year |-> y, source |-> src, op |-> op,
              accepted |-> val, races |-> rs, trace |-> tr]

\* loadRaceSchedule from the year filter to its end (main.js:932-961), for
\* call c with year y, accepted value val of tier t tagged src, the trace tr
\* so far and the list content cur the call has produced so far
Finish(c, y, val, src, t, tr, cur) ==
  LET tr2 == Append(tr, Ev(t, "ok")) IN
  IF filterThrows(val, src)
    THEN /\ End(c, "threw", y, src, "threw", val, <<>>, tr2)
         /\ scheduleList' = cur
         /\ heading' = heading
         /\ UNCHANGED countdownCall
    ELSE LET rs == finalRaces(val, y, src) IN
         IF rs = <<>>
           THEN /\ End(c, "returned", y, src, "none", val, rs, tr2)
                /\ scheduleList' = IF listEl THEN NoRaces ELSE cur
                /\ heading' = heading
                /\ UNCHANGED countdownCall
         ELSE IF ~listEl
           \* renderSchedule returns before its sort
           THEN /\ End(c, "returned", y, src, "renderSchedule", val, rs, tr2)
                /\ scheduleList' = cur
                /\ heading' = heading
                /\ startRaceCountdown(c, y, rs)
         ELSE IF HasNull(rs)
           \* renderSchedule has set the heading and emptied the list when
           \* parseRaceDate throws
           THEN /\ End(c, "threw", y, src, "renderSchedule", val, rs, tr2)
                /\ scheduleList' = Cards(<<>>)
                /\ heading' = y
                /\ UNCHANGED countdownCall
         ELSE /\ End(c, "returned", y, src, "renderSchedule", val, rs, tr2)
              /\ \E sorted \in sortOutcomes(rs) :
                   /\ scheduleList' = Cards(renderCards(sorted))
                   /\ startRaceCountdown(c, y, sorted)
              /\ heading' = y

\* mutant: the failed tier is requested again
NextTier_Retry(c, y, t, tr) ==
  /\ pc' = [pc EXCEPT ![c] = IF t = 1 THEN "t1" ELSE "t2"]
  /\ year' = [year EXCEPT ![c] = y]
  /\ trace' = [trace EXCEPT ![c] = tr \o <<Ev(t, "fail"), Ev(t, "req")>>]
  /\ UNCHANGED <<heading, last, countdownCall>>

\* tier t of call c has failed and the request of tier t + 1 is issued
NextTier(c, y, t, tr) ==
  /\ pc' = [pc EXCEPT ![c] = IF t = 1 THEN "t2" ELSE "t3"]
  /\ year' = [year EXCEPT ![c] = y]
  /\ trace' = [trace EXCEPT ![c] = tr \o <<Ev(t, "fail"), Ev(t + 1, "req")>>]
  /\ UNCHANGED <<heading, last, countdownCall>>

\* loadRaceSchedule(y) up to its first suspension: the loading placeholder,
\* then backend.getRaceSchedule, which answers from its cache or fetches
Load(c, y) ==
  /\ pc[c] = "idle"
  /\ \A d \in Calls : d < c => pc[d] # "idle"
  /\ LET cur == IF listEl THEN Loading ELSE scheduleList IN
     IF cacheHit(y)
       THEN IF primaryValid(cache.raceSchedule)
              THEN Finish(c, y, cache.raceSchedule.races, "backend-fastf1", 1,
                          <<Ev(1, "cached")>>, cur)
              ELSE /\ NextTier(c, y, 1, <<Ev(1, "cached")>>)
                   /\ scheduleList' = cur
       ELSE /\ pc' = [pc EXCEPT ![c] = "t1"]
            /\ year' = [year EXCEPT ![c] = y]
            /\ trace' = [trace EXCEPT ![c] = <<Ev(1, "req")>>]
            /\ scheduleList' = cur
            /\ UNCHANGED <<heading, last, countdownCall>>
  /\ UNCHANGED <<otherVars, listEl, tz, now, ticks, cache, input>>

\* RealTimeData.init: loadRaceSchedule(2025)
InitLoad ==
  /\ Load(1, DefaultYear)
  /\ UNCHANGED seasonSelect

\* the change listener of #seasonSelect
SeasonChange(c, y) ==
  /\ c > 1
  /\ seasonSelect' = y
  /\ Load(c, y)

\* the click listener of #refreshSchedule
RefreshClick(c) ==
  /\ c > 1
  /\ UNCHANGED seasonSelect
  /\ Load(c, seasonSelect)

\* the primary request of call c completes with resp
PrimaryDone(c, resp) ==
  /\ pc[c] = "t1"
  /\ cache' = IF backendReturns(resp)
                THEN [raceSchedule |-> resp, cacheTime |-> now]
                ELSE cache
  /\ IF backendReturns(resp) /\ primaryValid(resp)
       THEN Finish(c, year[c], resp.races, "backend-fastf1", 1, trace[c],
                   scheduleList)
       ELSE /\ NextTier(c, year[c], 1, trace[c])
            /\ UNCHANGED scheduleList
  /\ UNCHANGED <<otherVars, listEl, tz, now, ticks, seasonSelect, input>>

\* the secondary request of call c completes with body b
SecondaryDone(c, b) ==
  /\ pc[c] = "t2"
  /\ IF secondaryValid(b)
       THEN Finish(c, year[c], parseSecondary(b), "rapidapi", 2, trace[c],
                   scheduleList)
       ELSE /\ NextTier(c, year[c], 2, trace[c])
            /\ UNCHANGED scheduleList
  /\ UNCHANGED <<otherVars, listEl, tz, now, ticks, cache, seasonSelect, input>>

\* the request for ./data/race-schedule.json of call c completes with body b
TertiaryDone(c, b) ==
  /\ pc[c] = "t3"
  /\ IF tertiaryLoads(b)
       THEN Finish(c, year[c], manualRaces(b), "manual-json", 3, trace[c],
                   scheduleList)
       ELSE \* renderMockSchedule(); return
            /\ End(c, "returned", year[c], "unknown", "renderMock", Absent, <<>>,
                   trace[c] \o <<Ev(3, "fail"), Ev(4, "ok")>>)
            /\ scheduleList' = IF listEl THEN Mock ELSE scheduleList
            /\ UNCHANGED <<heading, countdownCall>>
  /\ UNCHANGED <<otherVars, listEl, tz, now, ticks, cache, seasonSelect, input>>

\* time passes
Tick ==
  /\ ticks < MaxTicks
  /\ ticks' = ticks + 1
  /\ now' = now + CacheDuration
  /\ UNCHANGED <<otherVars, listEl, tz, cache, pc, year, trace, scheduleList,
                 heading, seasonSelect, input, last, countdownCall>>

Next ==
  \/ InitLoad
  \/ \E c \in Calls, y \in Years : SeasonChange(c, y)
  \/ \E c \in Calls : RefreshClick(c)
  \/ \E c \in Calls : \E resp \in AnswersFor(year[c]) : PrimaryDone(c, resp)
  \/ \E c \in Calls, b \in SecondaryResponses : SecondaryDone(c, b)
  \/ \E c \in Calls, b \in TertiaryResponses : TertiaryDone(c, b)
  \/ Tick

Spec == Init /\ [][Next]_vars

\* the same with what the environment guarantees: the page initializes,
\* every request is answered, time passes; the user need not click
SpecLive ==
  /\ Spec
  /\ WF_vars(InitLoad)
  /\ WF_vars(\E c \in Calls : \E resp \in AnswersFor(year[c]) : PrimaryDone(c, resp))
  /\ WF_vars(\E c \in Calls, b \in SecondaryResponses : SecondaryDone(c, b))
  /\ WF_vars(\E c \in Calls, b \in TertiaryResponses : TertiaryDone(c, b))
  /\ WF_vars(Tick)

(***************************************************************************)
(* One call whose secondary or tertiary response is fixed in advance, so   *)
(* that what the call does can be compared with what it received.  The     *)
(* call starts where loadRaceSchedule awaits that response.                *)
(***************************************************************************)
\* a candidate property of the secondary body, given the list l under study
Candidates(l) == {Absent, NotList, ListOf(<<>>), ListOf(l)}

SecondaryInputs ==
  {SecondaryResp("ok", ListOf(l), Absent, Absent, Absent) : l \in RaceLists}
    \cup UNION {{SecondaryResp("ok", Absent, rs, dt, sc) :
                   rs \in Candidates(l), dt \in Candidates(l), sc \in Candidates(l)} :
                l \in RaceLists}

TertiaryInputs ==
  {TertiaryResp(n, Absent) : n \in Nets} \cup {TertiaryResp("ok", NotList)}
    \cup {TertiaryResp("ok", ListOf(l)) : l \in RaceLists}

\* what the backend may answer: any list under study
PrimaryInputs ==
  {PrimaryResp(n, FALSE, Absent, 0) : n \in Nets \ {"ok"}}
    \cup {PrimaryResp("ok", su, rs, yr) :
            su \in BOOLEAN, yr \in Years \cup {0},
            rs \in {Absent, NotList} \cup {ListOf(l) : l \in RaceLists}}

\* what BackendClient.cache may hold when a call starts: nothing, or an
\* answer the client returned at time t
CachedAt(t) ==
  {[raceSchedule |-> r, cacheTime |-> t] :
     r \in {q \in PrimaryResponses : backendReturns(q)}}

InitInputs ==
  /\ IdleEvent
  /\ IdleFeeds
  /\ IdleCountdown
  /\ IdlePage
  /\ listEl = TRUE
  /\ tz \in LocalOffsets
  /\ now = PageOpened
  /\ ticks = 0
  /\ \E y \in Years :
       /\ seasonSelect = y
       /\ \/ /\ \E b \in PrimaryInputs : input = [tier |-> 1, body |-> b]
             /\ cache \in {[raceSchedule |-> NoResp, cacheTime |-> 0]}
                            \cup CachedAt(now - 1) \cup CachedAt(now - CacheDuration)
             /\ pc = [c \in Calls |-> "idle"]
             /\ year = [c \in Calls |-> 0]
             /\ trace = [c \in Calls |-> <<>>]
             /\ scheduleList = Initial
          \/ /\ \E b \in SecondaryInputs : input = [tier |-> 2, body |-> b]
             /\ cache = [raceSchedule |-> NoResp, cacheTime |-> 0]
             /\ pc = [c \in Calls |-> IF c = 1 THEN "t2" ELSE "idle"]
             /\ year = [c \in Calls |-> IF c = 1 THEN y ELSE 0]
             /\ trace = [c \in Calls |-> IF c = 1
                           THEN <<Ev(1, "req"), Ev(1, "fail"), Ev(2, "req")>>
                           ELSE <<>>]
             /\ scheduleList = Loading
          \/ /\ \E b \in TertiaryInputs : input = [tier |-> 3, body |-> b]
             /\ cache = [raceSchedule |-> NoResp, cacheTime |-> 0]
             /\ pc = [c \in Calls |-> IF c = 1 THEN "t3" ELSE "idle"]
             /\ year = [c \in Calls |-> IF c = 1 THEN y ELSE 0]
             /\ trace = [c \in Calls |-> IF c = 1
                           THEN <<Ev(1, "req"), Ev(1, "fail"), Ev(2, "req"),
                                  Ev(2, "fail"), Ev(3, "req")>>
                           ELSE <<>>]
             /\ scheduleList = Loading
  /\ heading = 0
  /\ last = NoLast

\* the call whose primary answer is under study starts
InputLoad ==
  /\ input.tier = 1
  /\ Load(1, seasonSelect)
  /\ UNCHANGED seasonSelect

\* the awaited response arrives
InputArrives ==
  \/ input.tier = 1 /\ PrimaryDone(1, input.body)
  \/ input.tier = 2 /\ SecondaryDone(1, input.body)
  \/ input.tier = 3 /\ TertiaryDone(1, input.body)

\* the bundled file answers a call whose secondary response was rejected
FileAfterInput ==
  /\ input.tier = 2
  /\ \E b \in TertiaryResponses : TertiaryDone(1, b)

NextInputs == InputLoad \/ InputArrives \/ FileAfterInput

SpecInputs == InitInputs /\ [][NextInputs]_vars

(***************************************************************************)
(* One race object at a time: what renderSchedule derives from it, and     *)
(* from an object that already has the shape of the result.                *)
(***************************************************************************)
\* race objects that differ in their date and time properties
DateEvents ==
  {[Blank EXCEPT !.date = d, !.time = t, !.raceDate = rd, !.raceTime = rt,
                 !.startDate = sd, !.startTime = st, !.datetime = dt] :
     d \in {0, 68, BadDate, IsoDate(DateInstant(68) + 900)}, t \in {0, 900},
     rd \in {0, 70, BadDate}, rt \in {0, 600},
     sd \in {0, 72}, st \in {0, 300},
     dt \in {0, DateInstant(74) + 1020, BadDate}}

\* race objects that differ in their name properties
NameEvents ==
  {[Blank EXCEPT !.raceName = a, !.name = b, !.grandPrix = c, !.title = d,
                 !.circuit = e] :
     a \in {"", "Bahrain Grand Prix"}, b \in {"", "Bahrain GP"},
     c \in {"", "Gulf Air Grand Prix"}, d \in {"", "Round One"},
     e \in {"", "Bahrain International Circuit"}}

\* race.location: absent, a string, or an object with country and city
Locations ==
  {[country |-> c, city |-> y, flat |-> ""] : c \in {"", "BH"}, y \in {"", "Manama"}}
    \cup {[country |-> "", city |-> "", flat |-> "Bahrain, Sakhir"]}

\* race objects that differ in their place properties
PlaceEvents ==
  {[Blank EXCEPT !.country = a, !.circuitCountry = b, !.locCountry = l.country,
                 !.locCity = l.city, !.location = l.flat, !.locality = c,
                 !.circuitLocality = d, !.trackLocation = e, !.circuit = f] :
     a \in {"", "Bahrain"}, b \in {"", "Kingdom of Bahrain"}, l \in Locations,
     c \in {"", "Sakhir"}, d \in {"", "Sakhir Desert"}, e \in {"", "Sakhir Track"},
     f \in {"", "Bahrain International Circuit"}}

\* race objects that differ in their round properties
RoundEvents ==
  {[Blank EXCEPT !.round = a, !.roundNumber = b] : a \in {0, 5}, b \in {0, 7}}

Events == DateEvents \cup NameEvents \cup PlaceEvents \cup RoundEvents

\* an object in the shape of the result, as the events of renderMockSchedule
\* are: round, name, country, locality and the instant as an ISO date-time
Canonical(c) ==
  [Blank EXCEPT !.round = c.round, !.name = c.name, !.country = c.country,
                !.locality = c.locality,
                !.date = IF c.instant = NaN THEN BadDate ELSE IsoDate(c.instant)]

InitEvent ==
  /\ \E r \in Events, i \in 0..MaxLen - 1 : event = [race |-> r, index |-> i]
  /\ shown = NoShown
  /\ again = NoShown
  /\ IdleFeeds
  /\ IdleCountdown
  /\ IdlePage
  /\ listEl = TRUE
  /\ tz \in LocalOffsets
  /\ now = PageOpened
  /\ ticks = 0
  /\ cache = [raceSchedule |-> NoResp, cacheTime |-> 0]
  /\ pc = [c \in Calls |-> "idle"]
  /\ year = [c \in Calls |-> 0]
  /\ trace = [c \in Calls |-> <<>>]
  /\ scheduleList = Initial
  /\ heading = 0
  /\ seasonSelect = DefaultYear
  /\ input = NoInput
  /\ last = NoLast

scheduleVars == <<listEl, tz, now, ticks, cache, pc, year, trace,
                  scheduleList, heading, seasonSelect, input, last, pageVars>>

countdownVars == <<countdown, countdownInterval, timers, polls, countdownCall>>

\* the body of renderSchedule's forEach for the object under study
Normalize ==
  /\ shown = NoShown
  /\ shown' = card(event.race, event.index)
  /\ UNCHANGED <<event, again, weather, news, scheduleVars, countdownVars>>

\* the same for the object that has the shape of the first result
Renormalize ==
  /\ shown # NoShown
  /\ again = NoShown
  /\ again' = card(Canonical(shown), event.index)
  /\ UNCHANGED <<event, shown, weather, news, scheduleVars, countdownVars>>

NextEvent == Normalize \/ Renormalize

SpecEvent == InitEvent /\ [][NextEvent]_vars

(***************************************************************************)
(* The weather chip and the news carousel: loadWeather and loadNews, each  *)
(* started by RealTimeData.init and answered once.                         *)
(***************************************************************************)
\* current.temperature_2m of the weather body: absent, a number (in tenths
\* of a degree) or a string
NoTemp == [kind |-> "absent", tenths |-> 0]
Temps == {NoTemp} \cup {[kind |-> k, tenths |-> t] :
                          k \in {"number", "string"}, t \in {214, 216, 240}}

\* the answer to the weather request: fetch rejects ("error"), or a response
\* with a 2xx status or not, whose body does not parse, is null, or is an
\* object
WeatherResp(n, o, b, t) == [net |-> n, ok |-> o, body |-> b, temp |-> t]
WeatherResponses ==
  {WeatherResp("error", FALSE, "none", NoTemp)}
    \cup {WeatherResp("answer", o, b, NoTemp) :
            o \in BOOLEAN, b \in {"unparsable", "null"}}
    \cup {WeatherResp("answer", o, "object", t) : o \in BOOLEAN, t \in Temps}

\* Math.round of a temperature given in tenths
Round(tenths) == (tenths + 5) \div 10

\* `${Math.round(temp)}` followed by the degree sign and C
TempText(t) == ToString(Round(t.tenths)) \o " C"

\* the text of the catch block
FallbackTemp == "24 C"

\* the text the page's markup gives the element before loadWeather runs
StaticTemps == {"-- C", "24 C"}

\* the element's text after the try/catch of loadWeather, text being its
\* text before
weatherText(resp, text) ==
  IF resp.net = "error" \/ resp.body = "unparsable" THEN FallbackTemp
  ELSE IF resp.body = "object" /\ resp.temp.kind = "number" THEN TempText(resp.temp)
  ELSE text

\* loadWeather up to its await
LoadWeather ==
  /\ weather.pc = "idle"
  /\ weather' = [weather EXCEPT !.pc = IF weather.el THEN "await" ELSE "done"]
  /\ UNCHANGED <<news, event, shown, again, scheduleVars, countdownVars>>

\* the weather request completes
WeatherDone(resp) ==
  /\ weather.pc = "await"
  /\ weather' = [weather EXCEPT !.pc = "done", !.resp = resp,
                                !.text = weatherText(resp, weather.text)]
  /\ UNCHANGED <<news, event, shown, again, scheduleVars, countdownVars>>

\* an item of the news list: {title, url, source}, or null
NewsItem(t, s, u) == [isNull |-> FALSE, title |-> t, source |-> s, url |-> u]
NullItem == [isNull |-> TRUE, title |-> "", source |-> "", url |-> ""]

\* a url that is not a string (a number), on which startsWith does not exist
NonString == "<42>"

LiveItem == NewsItem("Verstappen wins", "autosport", "https://autosport.com/1")

NewsItems ==
  { LiveItem,
    NewsItem("", "motorsport", ""),
    NewsItem("Ferrari upgrade", "", NonString),
    NullItem }

NewsShown == 4

\* the lists of the news API: up to MaxNews items, the last two of any kind
\* after items of a known source
NewsLists ==
  {[i \in 1..k |-> LiveItem] \o l :
     l \in SeqsUpTo(NewsItems, 2), k \in 0..MaxNews - 2}

NewsResp(n, b) == [net |-> n, body |-> b]
NewsResponses ==
  {NewsResp(n, Absent) : n \in Nets \ {"ok"}}
    \cup {NewsResp("ok", NotList)}
    \cup {NewsResp("ok", ListOf(l)) : l \in NewsLists}

categoryMap ==
  ("autosport" :> "Race News") @@ ("skyf1" :> "Sky Sports F1") @@
  ("f1" :> "Official F1") @@ ("bbc" :> "BBC Sport") @@ ("espn" :> "ESPN F1")

emojiMap ==
  ("autosport" :> "racing car") @@ ("skyf1" :> "television") @@
  ("f1" :> "chequered flag") @@ ("bbc" :> "newspaper") @@ ("espn" :> "high voltage")

\* getNewsEmoji(source)
getNewsEmoji(source) ==
  IF source \in DOMAIN emojiMap THEN emojiMap[source] ELSE "newspaper"

\* mutant: a source without an entry gets the literal default
newsCategory_Literal(source) ==
  IF source \in DOMAIN categoryMap THEN categoryMap[source] ELSE "F1 News"

\* categoryMap[news.source] || news.source || 'F1 News'
newsCategory(source) ==
  IF source \in DOMAIN categoryMap THEN categoryMap[source]
  ELSE Or2(source, "F1 News")

\* the carousel entry loadNews builds for an item of the list
newsEntry(n) ==
  [title |-> Or2(n.title, "F1 News"),
   summary |-> Or2(n.title, "Latest Formula 1 updates"),
   image |-> getNewsEmoji(n.source),
   category |-> newsCategory(n.source),
   url |-> Or2(n.url, "#"),
   source |-> Or2(n.source, "Unknown")]

mockEntry(t, sm, im, c) ==
  [title |-> t, summary |-> sm, image |-> im, category |-> c, url |-> "#blogs",
   source |-> ""]

getMockNewsData ==
  << mockEntry("Verstappen Dominates Saudi Arabian GP",
               "Red Bull's Max Verstappen secures another commanding victory in Jeddah",
               "racing car", "Race Results"),
     mockEntry("New Regulations for 2025 Season",
               "FIA announces updated technical regulations focusing on sustainability",
               "clipboard", "Regulations"),
     mockEntry("Hamilton's Move to Ferrari Confirmed",
               "Seven-time world champion makes historic switch to Scuderia Ferrari",
               "red circle", "Driver News"),
     mockEntry("Nairobi Watch Party Venues Announced",
               "Check out the best spots to watch F1 races in Kenya's capital",
               "chequered flag", "Community") >>

\* apiNews.slice(0, 4)
FirstShown(l) == SubSeq(l, 1, IF Len(l) < NewsShown THEN Len(l) ELSE NewsShown)

\* the answer is a list with an item
newsUsable(resp) ==
  resp.net = "ok" /\ resp.body.kind = "list" /\ Len(resp.body.items) > 0

\* the map callback reads a property of a null item
mapThrows(l) == \E i \in 1..Len(FirstShown(l)) : FirstShown(l)[i].isNull

\* renderNewsCarousel calls startsWith on a url that is not a string
renderThrows(l) == \E i \in 1..Len(FirstShown(l)) : FirstShown(l)[i].url = NonString

\* renderNewsCarousel(newsData, isLiveData) of a list whose urls are strings,
\* followed by setupCarouselControls, which starts the auto-advance timer
renderNewsCarousel(entries, isLive) ==
  IF news.track
  THEN [news EXCEPT !.slides = entries, !.live = isLive,
                    !.timers = IF Len(entries) > 0 THEN @ + 1 ELSE @]
  ELSE news

\* loadNews up to its await
LoadNews ==
  /\ news.pc = "idle"
  /\ news' = [news EXCEPT !.pc = "await"]
  /\ UNCHANGED <<weather, event, shown, again, scheduleVars, countdownVars>>

\* the news request completes: the live path inside the try block, the mock
\* path after it
NewsDone(resp) ==
  /\ news.pc = "await"
  /\ LET l == resp.body.items
         liveOk == newsUsable(resp) /\ ~ mapThrows(l)
         shownLive == liveOk /\ ~ (news.track /\ renderThrows(l))
         after == IF shownLive
                  THEN renderNewsCarousel([i \in 1..Len(FirstShown(l)) |->
                                             newsEntry(FirstShown(l)[i])], TRUE)
                  ELSE renderNewsCarousel(getMockNewsData, FALSE)
     IN news' = [after EXCEPT !.pc = "done", !.resp = resp,
                              !.updated = liveOk]
  /\ UNCHANGED <<weather, event, shown, again, scheduleVars, countdownVars>>

InitFeeds ==
  /\ \E e \in BOOLEAN, t \in StaticTemps :
       weather = [pc |-> "idle", el |-> e, resp |-> NoAnswer, text |-> t]
  /\ \E t \in BOOLEAN :
       news = [pc |-> "idle", track |-> t, resp |-> NoAnswer, slides |-> <<>>,
               live |-> FALSE, updated |-> FALSE, timers |-> 0]
  /\ IdleEvent
  /\ IdleCountdown
  /\ IdlePage
  /\ listEl = TRUE
  /\ tz = 0
  /\ now = PageOpened
  /\ ticks = 0
  /\ cache = [raceSchedule |-> NoResp, cacheTime |-> 0]
  /\ pc = [c \in Calls |-> "idle"]
  /\ year = [c \in Calls |-> 0]
  /\ trace = [c \in Calls |-> <<>>]
  /\ scheduleList = Initial
  /\ heading = 0
  /\ seasonSelect = DefaultYear
  /\ input = NoInput
  /\ last = NoLast

NextFeeds ==
  \/ LoadWeather
  \/ \E resp \in WeatherResponses : WeatherDone(resp)
  \/ LoadNews
  \/ \E resp \in NewsResponses : NewsDone(resp)

SpecFeeds == InitFeeds /\ [][NextFeeds]_vars

(***************************************************************************)
(* The countdown: startRaceCountdown after its await, the two interval     *)
(* timers and the polls of the backend timer.                              *)
(***************************************************************************)
\* BackendClient.getNextRace returns the data only for a 2xx response whose
\* body has success; it throws otherwise
getNextRaceReturns(resp) == resp.net = "ok" /\ resp.success

RaceM == BackendRace(TRUE, "Miami Grand Prix", DateInstant(123) + 1200)
RaceAnon == BackendRace(TRUE, "", 0)

NextRaceResponses ==
  {NextRaceResp("error", FALSE, NoBackendRace, BackendCountdown(FALSE, 0)),
   NextRaceResp("ok", FALSE, NoBackendRace, BackendCountdown(FALSE, 0))}
    \cup {NextRaceResp("ok", TRUE, r, cd) :
            r \in {NoBackendRace, RaceM, RaceAnon},
            cd \in {BackendCountdown(FALSE, 0), BackendCountdown(TRUE, 0),
                    BackendCountdown(TRUE, 3600)}}

\* the answers the interleavings are explored with
SampleNextRaces ==
  {NextRaceResp("error", FALSE, NoBackendRace, BackendCountdown(FALSE, 0)),
   NextRaceResp("ok", TRUE, RaceM, BackendCountdown(TRUE, 0)),
   NextRaceResp("ok", TRUE, RaceM, BackendCountdown(TRUE, 3600))}

\* the text update() of updateCountdown writes at time t
LocalText(targetDate, t) ==
  IF targetDate = NaN THEN "NaN:NaN"
  ELSE IF targetDate - t <= 0 THEN "RACE DAY!"
  ELSE ToString(targetDate - t) \o " minutes"

\* the text update() of updateCountdownFromBackend writes for a countdown
BackendText(cd) == ToString(cd.total_seconds) \o " seconds"

\* nextRace.raceName || nextRace.name || nextRace.grandPrix ||
\* nextRace.title || "Next Race"
countdownName(r) == Or2(checkName(r), "Next Race")

\* mutant: the first event is taken when none is after now
nextRace_OrFirst(sorted, now0) ==
  IF \E i \in 1..Len(sorted) : parseRaceDate(sorted[i]) # NaN
                                 /\ parseRaceDate(sorted[i]) > now0
    THEN CHOOSE i \in 1..Len(sorted) :
           /\ parseRaceDate(sorted[i]) # NaN /\ parseRaceDate(sorted[i]) > now0
           /\ \A j \in 1..i - 1 : ~ (parseRaceDate(sorted[j]) # NaN
                                       /\ parseRaceDate(sorted[j]) > now0)
    ELSE 1

\* sortedRaces.find(r => parseRaceDate(r) > now): the position of the first
\* event after now0, 0 when there is none
nextRace(sorted, now0) ==
  IF \E i \in 1..Len(sorted) : parseRaceDate(sorted[i]) # NaN
                                 /\ parseRaceDate(sorted[i]) > now0
    THEN CHOOSE i \in 1..Len(sorted) :
           /\ parseRaceDate(sorted[i]) # NaN /\ parseRaceDate(sorted[i]) > now0
           /\ \A j \in 1..i - 1 : ~ (parseRaceDate(sorted[j]) # NaN
                                       /\ parseRaceDate(sorted[j]) > now0)
    ELSE 0

\* the handle setInterval returns: a positive number no active timer has
FreshId(active) ==
  CHOOSE n \in 1..Cardinality(active) + 1 :
    /\ \A t \in active : t.id # n
    /\ \A m \in 1..n - 1 : \E t \in active : t.id = m

Timer(i, k, target, race) == [id |-> i, kind |-> k, target |-> target, race |-> race]

\* mutant: the stored handle is not cleared before the new timer starts
updateCountdown_NoClear(dom, targetDate) ==
  IF ~ dom.el
    THEN /\ countdown' = dom
         /\ UNCHANGED <<countdownInterval, timers>>
    ELSE LET kept == timers
             id == FreshId(kept)
         IN /\ countdown' = [dom EXCEPT !.text = LocalText(targetDate, now)]
            /\ timers' = kept \cup {Timer(id, "local", targetDate, NoBackendRace)}
            /\ countdownInterval' = id

\* updateCountdown(targetDate) on the page dom: clearInterval of the stored
\* handle, update(), setInterval
updateCountdown(dom, targetDate) ==
  IF ~ dom.el
    THEN /\ countdown' = dom
         /\ UNCHANGED <<countdownInterval, timers>>
    ELSE LET kept == {t \in timers : t.id # countdownInterval}
             id == FreshId(kept)
         IN /\ countdown' = [dom EXCEPT !.text = LocalText(targetDate, now)]
            /\ timers' = kept \cup {Timer(id, "local", targetDate, NoBackendRace)}
            /\ countdownInterval' = id

\* updateCountdownFromBackend(countdown, race) on the page dom:
\* clearInterval of the stored handle, update(), which issues a poll, and
\* setInterval
updateCountdownFromBackend(dom, race) ==
  IF ~ dom.el
    THEN /\ countdown' = dom
         /\ UNCHANGED <<countdownInterval, timers, polls>>
    ELSE LET kept == {t \in timers : t.id # countdownInterval}
             id == FreshId(kept)
         IN /\ Len(polls) < MaxPolls
            /\ countdown' = [dom EXCEPT !.name =
                               IF dom.nameEl
                                 THEN Or2(race.raceName, "Next Race") \o " - Countdown"
                                 ELSE @]
            /\ polls' = Append(polls, race)
            /\ timers' = kept \cup {Timer(id, "backend", 0, race)}
            /\ countdownInterval' = id

\* what the call c of startRaceCountdown did
Decided(c, resp, d) ==
  countdownCall' =
    [countdownCall EXCEPT ![c] =
       [@ EXCEPT !.pc = "done", !.resp = resp, !.decision = d,
                 !.order = 1 + Cardinality({e \in Calls :
                                              countdownCall[e].pc = "done"})]]

\* startRaceCountdown of call c resumes with the answer of getNextRace
NextRaceDone(c, resp) ==
  /\ countdownCall[c].pc = "await"
  /\ LET call == countdownCall[c]
         usable == getNextRaceReturns(resp) /\ resp.race.present
         named == IF usable /\ countdown.nameEl
                    THEN [countdown EXCEPT !.name = Or2(resp.race.raceName, "Next Race")]
                    ELSE countdown
     IN IF usable /\ resp.countdown.present /\ resp.countdown.total_seconds > 0
          THEN /\ updateCountdownFromBackend(named, resp.race)
               /\ Decided(c, resp, Decision("backend", resp.race.datetime))
        ELSE IF HasNull(call.races)
          \* parseRaceDate throws on the null element, outside the try block
          THEN /\ countdown' = named
               /\ Decided(c, resp, Decision("threw", 0))
               /\ UNCHANGED <<countdownInterval, timers, polls>>
        ELSE \E sorted \in sortOutcomes(call.races) :
               LET n == nextRace(sorted, call.now0) IN
               IF n # 0
                 THEN /\ updateCountdown(
                           [named EXCEPT !.name =
                              IF named.nameEl
                                THEN countdownName(sorted[n]) \o " - Countdown"
                                ELSE @],
                           parseRaceDate(sorted[n]))
                      /\ Decided(c, resp, Decision("local", parseRaceDate(sorted[n])))
                      /\ UNCHANGED polls
                 ELSE /\ countdown' =
                           [named EXCEPT
                              !.text = IF named.el THEN "Season Ended" ELSE @,
                              !.name = IF named.nameEl THEN "No upcoming races" ELSE @]
                      /\ Decided(c, resp, Decision("ended", 0))
                      /\ UNCHANGED <<countdownInterval, timers, polls>>
  /\ UNCHANGED <<event, shown, again, weather, news, scheduleVars>>

\* the interval timer t fires: the update of a backend timer issues a poll,
\* that of a local timer writes the time left
TimerFires(t) ==
  /\ t \in timers
  /\ IF t.kind = "backend"
       THEN /\ Len(polls) < MaxPolls
            /\ polls' = Append(polls, t.race)
            /\ UNCHANGED countdown
       ELSE /\ countdown' = [countdown EXCEPT !.text = LocalText(t.target, now)]
            /\ UNCHANGED polls
  /\ UNCHANGED <<countdownInterval, timers, countdownCall>>
  /\ UNCHANGED <<event, shown, again, weather, news, scheduleVars>>

RemoveAt(s, i) == SubSeq(s, 1, i - 1) \o SubSeq(s, i + 1, Len(s))

\* the poll at position i, issued for the race of its timer, is answered
PollDone(i, resp) ==
  /\ i \in 1..Len(polls)
  /\ polls' = RemoveAt(polls, i)
  /\ LET race == polls[i] IN
     IF getNextRaceReturns(resp)
       THEN /\ countdown' =
                 IF ~ resp.countdown.present THEN countdown
                 ELSE IF resp.countdown.total_seconds <= 0
                   THEN [countdown EXCEPT
                           !.text = "RACE DAY!",
                           !.name = IF countdown.nameEl
                                      THEN Or2(race.raceName, "Race") \o " - LIVE!"
                                      ELSE @]
                 ELSE [countdown EXCEPT !.text = BackendText(resp.countdown)]
            /\ UNCHANGED <<countdownInterval, timers>>
     ELSE IF race.datetime # 0
       THEN updateCountdown(countdown, race.datetime)
     ELSE UNCHANGED <<countdown, countdownInterval, timers>>
  /\ UNCHANGED countdownCall
  /\ UNCHANGED <<event, shown, again, weather, news, scheduleVars>>

\* the events the countdown is studied with: one two minutes ahead, one
\* past, one of the next season, one without a date, one whose date does not
\* parse
CountdownRaces == {RaceA, RaceB, RaceC, RaceD, RaceG}

CountdownLists == SeqsUpTo(CountdownRaces, MaxLen) \ {<<>>}

\* one load of the current season answered by the backend with a list fixed
\* in advance, on a page with the countdown
InitTarget ==
  /\ IdleEvent
  /\ IdleFeeds
  /\ PageWithCountdown
  /\ IdlePage
  /\ listEl \in BOOLEAN
  /\ tz \in LocalOffsets
  /\ now = PageOpened
  /\ ticks = 0
  /\ cache = [raceSchedule |-> NoResp, cacheTime |-> 0]
  /\ pc = [c \in Calls |-> "idle"]
  /\ year = [c \in Calls |-> 0]
  /\ trace = [c \in Calls |-> <<>>]
  /\ scheduleList = Initial
  /\ heading = 0
  /\ seasonSelect = DefaultYear
  /\ \E l \in CountdownLists :
       input = [tier |-> 1, body |-> PrimaryResp("ok", TRUE, ListOf(l), DefaultYear)]
  /\ last = NoLast

TargetArrives ==
  /\ input.tier = 1
  /\ PrimaryDone(1, input.body)

NextTarget ==
  \/ InputLoad
  \/ TargetArrives
  \/ \E resp \in NextRaceResponses : NextRaceDone(1, resp)
  \/ \E t \in timers : TimerFires(t)
  \/ \E i \in 1..MaxPolls, resp \in NextRaceResponses : PollDone(i, resp)
  \/ Tick

SpecTarget == InitTarget /\ [][NextTarget]_vars

\* the backend's schedule answers the interleavings are explored with
CountdownAnswers ==
  {PrimaryResp("ok", TRUE, ListOf(l), DefaultYear) :
     l \in {<<RaceB, RaceA>>, <<RaceB>>}}

\* overlapping loads of the current season on a page with the countdown
InitCountdown ==
  /\ IdleEvent
  /\ IdleFeeds
  /\ PageWithCountdown
  /\ IdlePage
  /\ listEl = TRUE
  /\ tz \in LocalOffsets
  /\ now = PageOpened
  /\ ticks = 0
  /\ cache = [raceSchedule |-> NoResp, cacheTime |-> 0]
  /\ pc = [c \in Calls |-> "idle"]
  /\ year = [c \in Calls |-> 0]
  /\ trace = [c \in Calls |-> <<>>]
  /\ scheduleList = Initial
  /\ heading = 0
  /\ seasonSelect = DefaultYear
  /\ input = NoInput
  /\ last = NoLast

\* the backend echoes the requested year
CountdownAnswersFor(y) == {[r EXCEPT !.year = y] : r \in CountdownAnswers}

NextCountdown ==
  \/ InitLoad
  \/ \E c \in Calls, y \in Years : SeasonChange(c, y)
  \/ \E c \in Calls : RefreshClick(c)
  \/ \E c \in Calls : \E resp \in CountdownAnswersFor(year[c]) : PrimaryDone(c, resp)
  \/ \E c \in Calls, resp \in SampleNextRaces : NextRaceDone(c, resp)
  \/ \E t \in timers : TimerFires(t)
  \/ \E i \in 1..MaxPolls, resp \in SampleNextRaces : PollDone(i, resp)

SpecCountdown == InitCountdown /\ [][NextCountdown]_vars

(***************************************************************************)
(* The join-club form and the quiz.                                        *)
(***************************************************************************)
\* the answer to the POST of submitJoinClubForm: fetch rejects, a status
\* that is not 2xx, a 2xx whose body is not JSON, a 2xx with a JSON body
WriteResponses == {"error", "http", "unparsable", "ok"}

\* mutant: submitJoinClubForm without its try/catch
submitJoinClubForm_NoCatch(token, resp) ==
  IF ~token THEN [sent |-> FALSE, returns |-> "failure"]
  ELSE [sent |-> TRUE,
        returns |-> IF resp = "ok" THEN "success" ELSE "throws"]

\* SanityClient.submitJoinClubForm: whether it sends the request, and how it
\* ends (a result with success true, a result with success false, or an
\* exception) when the request is answered with resp
submitJoinClubForm(token, resp) ==
  IF ~token THEN [sent |-> FALSE, returns |-> "failure"]
  ELSE [sent |-> TRUE,
        returns |-> IF resp \in {"error", "http", "unparsable"} THEN "failure"
                    ELSE "success"]

\* the text of both alerts of handleSubmit
Welcome == "Welcome to NashfyPitStop! You've successfully joined our community."

\* what one submission did, once handleSubmit has returned
Submission(w, r, al, rs) == [write |-> w, returns |-> r, alerts |-> al, resets |-> rs]

\* mutant: handleSubmit without the return of its success branch
handleSubmit_NoReturn(w, r) ==
  IF r = "success" THEN Submission(w, r, <<Welcome, Welcome>>, 2)
  ELSE Submission(w, r, <<Welcome>>, 1)

\* handleSubmit from the end of the CMS call on: r is how the call ended,
\* "skipped" when the client is not defined
handleSubmit(w, r) ==
  IF r = "success" THEN Submission(w, r, <<Welcome>>, 1)
  ELSE Submission(w, r, <<Welcome>>, 1)

\* the user submits the form: handleSubmit up to its await, or to its end
\* when nothing is awaited on the network
Submit ==
  /\ joinForm.form
  /\ joinForm.pending + Len(joinForm.done) < MaxCalls
  /\ LET call == submitJoinClubForm(sanity.writeToken, "none")
     IN  IF ~sanity.defined
         THEN joinForm' = [joinForm EXCEPT
                             !.done = @ \o <<handleSubmit("none", "skipped")>>]
         ELSE IF ~call.sent
         THEN joinForm' = [joinForm EXCEPT
                             !.done = @ \o <<handleSubmit("none", call.returns)>>]
         ELSE joinForm' = [joinForm EXCEPT !.pending = @ + 1, !.requests = @ + 1]
  /\ UNCHANGED <<sanity, quiz, navigation, f1News, venues>>
  /\ UNCHANGED <<event, shown, again, weather, news, countdownVars>>
  /\ UNCHANGED <<listEl, tz, now, ticks, cache, pc, year, trace,
                 scheduleList, heading, seasonSelect, input, last>>

\* the POST of a submission is answered: the rest of submitJoinClubForm
\* and of handleSubmit
WriteDone(resp) ==
  /\ joinForm.pending > 0
  /\ joinForm' = [joinForm EXCEPT
                    !.pending = @ - 1,
                    !.done = @ \o <<handleSubmit(resp,
                                       submitJoinClubForm(sanity.writeToken, resp).returns)>>]
  /\ UNCHANGED <<sanity, quiz, navigation, f1News, venues>>
  /\ UNCHANGED <<event, shown, again, weather, news, countdownVars>>
  /\ UNCHANGED <<listEl, tz, now, ticks, cache, pc, year, trace,
                 scheduleList, heading, seasonSelect, input, last>>

\* mutant: handleAnswer that leaves the buttons enabled
handleAnswer_Enabled(qz, q, selectedIndex, correctIndex) ==
  [qz EXCEPT
     !.mark[q] = [a \in Answers |->
                    IF a = correctIndex THEN "green"
                    ELSE IF a = selectedIndex THEN "red" ELSE @[a]],
     !.score = IF selectedIndex = correctIndex THEN @ + 1 ELSE @,
     !.picks[q] = @ \o <<selectedIndex>>,
     !.result = IF qz.resultEl
                THEN "Score: " \o ToString(IF selectedIndex = correctIndex
                                            THEN qz.score + 1 ELSE qz.score)
                       \o "/" \o ToString(Len(questions))
                ELSE @]

\* handleAnswer(questionEl, selectedIndex, correctIndex) on question q;
\* picks records the answers clicked
handleAnswer(qz, q, selectedIndex, correctIndex) ==
  [qz EXCEPT
     !.disabled[q] = TRUE,
     !.mark[q] = [a \in Answers |->
                    IF a = correctIndex THEN "green"
                    ELSE IF a = selectedIndex THEN "red" ELSE @[a]],
     !.score = IF selectedIndex = correctIndex THEN @ + 1 ELSE @,
     !.picks[q] = @ \o <<selectedIndex>>,
     !.result = IF qz.resultEl
                THEN "Score: " \o ToString(IF selectedIndex = correctIndex
                                            THEN qz.score + 1 ELSE qz.score)
                       \o "/" \o ToString(Len(questions))
                ELSE @]

\* a click on answer a of question q; a disabled button dispatches no click
AnswerClick(q, a) ==
  /\ quiz.box
  /\ ~quiz.disabled[q]
  /\ quiz' = handleAnswer(quiz, q, a, questions[q].correct)
  /\ UNCHANGED <<sanity, joinForm, navigation, f1News, venues>>
  /\ UNCHANGED <<event, shown, again, weather, news, countdownVars>>
  /\ UNCHANGED <<listEl, tz, now, ticks, cache, pc, year, trace,
                 scheduleList, heading, seasonSelect, input, last>>

\* the state of the schedule no load has touched
IdleSchedule ==
  /\ listEl = TRUE
  /\ tz = 0
  /\ now = PageOpened
  /\ ticks = 0
  /\ cache = [raceSchedule |-> NoResp, cacheTime |-> 0]
  /\ pc = [c \in Calls |-> "idle"]
  /\ year = [c \in Calls |-> 0]
  /\ trace = [c \in Calls |-> <<>>]
  /\ scheduleList = Initial
  /\ heading = 0
  /\ seasonSelect = DefaultYear
  /\ input = NoInput
  /\ last = NoLast

\* the page after construction: QuizSystem has rendered the quiz if #quizBox
\* exists, JoinClubForm listens if #joinClubForm exists
InitClub ==
  /\ IdleEvent
  /\ IdleFeeds
  /\ IdleCountdown
  /\ IdleSchedule
  /\ \E d \in BOOLEAN, t \in BOOLEAN : sanity = [defined |-> d, writeToken |-> t]
  /\ \E f \in BOOLEAN : joinForm = [NoSubmit EXCEPT !.form = f]
  /\ \E b \in BOOLEAN, r \in BOOLEAN :
       quiz = [NoQuiz EXCEPT !.box = b, !.resultEl = r]
  /\ navigation = NoNavigation
  /\ f1News = NoF1News
  /\ venues = NoVenues

NextClub ==
  \/ Submit
  \/ \E resp \in WriteResponses : WriteDone(resp)
  \/ \E q \in 1..Len(questions), a \in Answers : AnswerClick(q, a)

SpecClub == InitClub /\ [][NextClub]_vars

(***************************************************************************)
(* The router, the venues and the news tab: Navigation, loadVenues and     *)
(* BlogPage.loadF1News, constructed by the DOMContentLoaded handler.       *)
(***************************************************************************)
\* the page sections, which are the keys of pageTitles
Sections == {"home", "about", "watch-party", "blogs", "join-club"}

\* the elements getElementById finds: the sections, and #quizBox (which is
\* inside a section) on a page that has the quiz
Elements == Sections \cup (IF quiz.box THEN {"quizBox"} ELSE {})

\* location.hash without its '#': a section, another id, nothing, or an id
\* of no element
Hashes == Sections \cup {"quizBox", "", "nowhere"}

DefaultTitle == "NashfyPitStop | Kenya & East Africa F1 Community"

\* this.pageTitles[sectionId] || the default title
pageTitle(sectionId) ==
  IF sectionId \in Sections THEN sectionId \o " | NashfyPitStop" ELSE DefaultTitle

\* (hash && document.getElementById(hash)) ? hash : 'home'
routeOf(hash) == IF hash # "" /\ hash \in Elements THEN hash ELSE "home"

\* what the hash of the last route named: an element, or none
named(hash) == IF hash \in Elements THEN "element" ELSE "nothing"

\* showSection(sectionId) on the router: every section gets the class
\* hidden, then the target, if it exists, loses it
showSection(nav, sectionId) ==
  IF sectionId \in Elements
  THEN [nav EXCEPT !.hidden = Sections \ {sectionId},
                   !.currentSection = sectionId,
                   !.hash = sectionId,
                   !.title = pageTitle(sectionId)]
  ELSE [nav EXCEPT !.hidden = Sections]

\* the timeout showSection sets for 'watch-party', which calls loadVenues
reloadVenues(v, sectionId) ==
  IF sectionId = "watch-party" THEN [v EXCEPT !.timeouts = @ + 1] ELSE v

\* a call of showSection is followed while the loadVenues calls it may
\* start stay within the number of calls followed
mayShow(sectionId) ==
  sectionId = "watch-party" => venues.timeouts + venues.loads < MaxCalls

\* the answer to sanity.getVenues(): query throws ("error": fetch rejects,
\* a status that is not 2xx or a body that is not JSON), or returns
\* data.result: null, an empty list, a list of venues, a list with a null item
VenueResponses == {"error", "null", "empty", "list", "nullItem"}

\* what #venuesList holds after loadVenues got resp: renderVenues of the
\* list, or of the embedded venue when the list is unusable or rendering it
\* threw; "skipped" when the client is not defined
venuesContent(resp) == IF resp = "list" THEN "live" ELSE "mock"

\* loadVenues up to its await, or to its end when the client is undefined
loadVenues(v) ==
  IF sanity.defined THEN [v EXCEPT !.loads = @ + 1]
  ELSE [v EXCEPT !.resp = "skipped",
                 !.content = IF v.el THEN venuesContent("skipped") ELSE @]

\* the answer to the request of the news tab: fetch rejects, a status that
\* is not 2xx, a body that is not JSON, JSON that is not an array, an empty
\* array, an array of items, an array with a null item
F1Responses == {"error", "http", "unparsable", "notArray", "empty", "list", "nullItem"}

\* the answers that take loadF1News to its catch block: the request or the
\* parse failed, or renderF1News threw on a null item
f1Throws(resp) == resp \in {"error", "http", "unparsable", "nullItem"}

\* mutant: the catch block of loadF1News shows the list
f1NewsAfter_ListOnError(n, resp) ==
  IF f1Throws(resp)
  THEN [n EXCEPT !.pc = "done", !.resp = resp, !.loading = FALSE,
                 !.list = TRUE, !.retry = @ + 1,
                 !.content = IF resp = "nullItem" THEN "partial" ELSE @]
  ELSE [n EXCEPT !.pc = "done", !.resp = resp, !.loading = FALSE,
                 !.list = TRUE,
                 !.content = IF resp = "list" THEN "cards" ELSE "empty"]

\* loadF1News from its await on
f1NewsAfter(n, resp) ==
  IF f1Throws(resp)
  THEN [n EXCEPT !.pc = "done", !.resp = resp, !.loading = FALSE,
                 !.error = TRUE, !.retry = @ + 1,
                 !.content = IF resp = "nullItem" THEN "partial" ELSE @]
  ELSE [n EXCEPT !.pc = "done", !.resp = resp, !.loading = FALSE,
                 !.list = TRUE,
                 !.content = IF resp = "list" THEN "cards" ELSE "empty"]

\* loadF1News up to its await: the loading view is shown, the others hidden
loadF1News(n) ==
  [n EXCEPT !.pc = "await", !.loading = TRUE, !.error = FALSE, !.list = FALSE]

\* what no action of the page touches
pageRest ==
  <<event, shown, again, weather, news, countdownVars,
    listEl, tz, now, ticks, cache, pc, year, trace,
    scheduleList, heading, seasonSelect, input, last, sanity, joinForm, quiz>>

\* DOMContentLoaded with location.hash = h: new Navigation (which routes),
\* new RealTimeData (whose init calls loadVenues), new BlogPage (whose init
\* calls loadF1News)
PageLoad(h) ==
  /\ navigation.pc = "new"
  /\ navigation' = [showSection(navigation, routeOf(h)) EXCEPT
                      !.pc = "routed", !.route = named(h),
                      !.active = IF routeOf(h) \in Sections THEN routeOf(h) ELSE @]
  /\ venues' = loadVenues(reloadVenues(venues, routeOf(h)))
  /\ f1News' = loadF1News(f1News)
  /\ UNCHANGED pageRest

\* hashchange (back, forward, an edited address): the hash becomes h
HashChange(h) ==
  /\ navigation.pc = "routed"
  /\ h # navigation.hash
  /\ mayShow(routeOf(h))
  /\ navigation' = [showSection(navigation, routeOf(h)) EXCEPT
                      !.route = named(h),
                      !.active = IF routeOf(h) \in Sections THEN routeOf(h) ELSE @]
  /\ venues' = reloadVenues(venues, routeOf(h))
  /\ UNCHANGED <<f1News, pageRest>>

\* a click on the .nav-link whose href is #s
NavLinkClick(s) ==
  /\ navigation.pc = "routed"
  /\ mayShow(s)
  /\ navigation' = [showSection(navigation, s) EXCEPT
                      !.route = "-", !.active = s, !.hash = s]
  /\ venues' = reloadVenues(venues, s)
  /\ UNCHANGED <<f1News, pageRest>>

\* a click on the quick link (aside a) whose href is #s
QuickLinkClick(s) ==
  /\ navigation.pc = "routed"
  /\ mayShow(s)
  /\ navigation' = [showSection(navigation, s) EXCEPT
                      !.route = "-", !.active = s, !.hash = s]
  /\ venues' = reloadVenues(venues, s)
  /\ UNCHANGED <<f1News, pageRest>>

\* a click on the link of #mobileMenu whose href is #s
MobileLinkClick(s) ==
  /\ navigation.pc = "routed"
  /\ mayShow(s)
  /\ navigation' = [showSection(navigation, s) EXCEPT
                      !.route = "-", !.hash = s, !.menuHidden = ~@]
  /\ venues' = reloadVenues(venues, s)
  /\ UNCHANGED <<f1News, pageRest>>

\* a click on #joinClubBtn
JoinClubClick ==
  /\ navigation.pc = "routed"
  /\ navigation' = [showSection(navigation, "join-club") EXCEPT
                      !.route = "-", !.active = "join-club"]
  /\ UNCHANGED <<venues, f1News, pageRest>>

\* a click on #joinClubBtnMobile
JoinClubMobileClick ==
  /\ navigation.pc = "routed"
  /\ navigation' = [showSection(navigation, "join-club") EXCEPT
                      !.route = "-", !.menuHidden = ~@]
  /\ UNCHANGED <<venues, f1News, pageRest>>

\* a click on #mobileMenuBtn: toggleMobileMenu
MobileMenuClick ==
  /\ navigation.pc = "routed"
  /\ navigation' = [navigation EXCEPT !.menuHidden = ~@]
  /\ UNCHANGED <<venues, f1News, pageRest>>

\* the timeout of showSection('watch-party') fires: loadVenues
VenuesTimeout ==
  /\ venues.timeouts > 0
  /\ venues' = loadVenues([venues EXCEPT !.timeouts = @ - 1])
  /\ UNCHANGED <<navigation, f1News, pageRest>>

\* sanity.getVenues() of a loadVenues call ends: the rest of loadVenues
VenuesDone(resp) ==
  /\ venues.loads > 0
  /\ venues' = [venues EXCEPT !.loads = @ - 1, !.resp = resp,
                              !.content = IF venues.el THEN venuesContent(resp) ELSE @]
  /\ UNCHANGED <<navigation, f1News, pageRest>>

\* the request of the news tab is answered
F1NewsDone(resp) ==
  /\ f1News.pc = "await"
  /\ f1News' = f1NewsAfter(f1News, resp)
  /\ UNCHANGED <<navigation, venues, pageRest>>

\* a click on #retryF1News, on which the catch block put a listener that
\* runs once
RetryClick ==
  /\ f1News.retry > 0
  /\ f1News' = loadF1News([f1News EXCEPT !.retry = 0])
  /\ UNCHANGED <<navigation, venues, pageRest>>

\* the page before DOMContentLoaded
InitPage ==
  /\ IdleEvent
  /\ IdleFeeds
  /\ IdleCountdown
  /\ IdleSchedule
  /\ \E d \in BOOLEAN : sanity = [defined |-> d, writeToken |-> FALSE]
  /\ joinForm = NoSubmit
  /\ \E b \in BOOLEAN : quiz = [NoQuiz EXCEPT !.box = b]
  /\ navigation = [NoNavigation EXCEPT !.pc = "new"]
  /\ f1News = [NoF1News EXCEPT !.pc = "idle"]
  /\ \E e \in BOOLEAN : venues = [NoVenues EXCEPT !.el = e]

\* the user navigates; the venues are loaded and reloaded
NextPage ==
  \/ \E h \in Hashes : PageLoad(h)
  \/ \E h \in Hashes : HashChange(h)
  \/ \E s \in Sections : NavLinkClick(s)
  \/ \E s \in Sections : QuickLinkClick(s)
  \/ \E s \in Sections : MobileLinkClick(s)
  \/ JoinClubClick
  \/ JoinClubMobileClick
  \/ MobileMenuClick
  \/ VenuesTimeout
  \/ \E resp \in VenueResponses : VenuesDone(resp)

SpecPage == InitPage /\ [][NextPage]_vars

\* the requests the page makes when it loads are answered; the user
\* retries the news tab
NextContent ==
  \/ \E h \in Hashes : PageLoad(h)
  \/ VenuesTimeout
  \/ \E resp \in VenueResponses : VenuesDone(resp)
  \/ \E resp \in F1Responses : F1NewsDone(resp)
  \/ RetryClick

SpecContent == InitPage /\ [][NextContent]_vars

(***************************************************************************)
(* Properties                                                              *)
(***************************************************************************)
EvsOf(tr) == {tr[i] : i \in 1..Len(tr)}

\* the tier a finished trace ends in: 1 primary, 2 secondary, 3 bundled
\* file, 4 embedded fallback
EndTier(tr) == tr[Len(tr)].tier

\* the tag that names a tier
TierTag(t) ==
  CASE t = 1 -> "backend-fastf1"
    [] t = 2 -> "rapidapi"
    [] t = 3 -> "manual-json"
    [] OTHER -> "fallback"

\* a list the renderer cannot walk: not an array, or with a null element
Malformed(val) == val.kind # "list" \/ HasNull(val.items)

Requests(tr) == SelectSeq(tr, LAMBDA e : e.ev = "req")

\* tiers requested and not yet answered
InFlight(tr) ==
  {t \in 1..3 : \E i \in 1..Len(tr) :
      /\ tr[i] = Ev(t, "req")
      /\ \A j \in (i + 1)..Len(tr) : tr[j].tier # t}

Sequential(tr) ==
  /\ \A i \in 1..Len(tr) :
       \* a request follows the failure of the tier before it
       /\ tr[i].ev = "req" =>
            \/ i = 1 /\ tr[i].tier = 1
            \/ i > 1 /\ tr[i - 1] = Ev(tr[i].tier - 1, "fail")
       \* nothing follows a success
       /\ tr[i].ev = "ok" => i = Len(tr)
       \* the embedded fallback follows the failure of the file
       /\ tr[i].tier = 4 => i > 1 /\ tr[i - 1] = Ev(3, "fail")
  \* in the order 1, 2, 3 and none twice
  /\ \A i, j \in 1..Len(Requests(tr)) :
       i < j => Requests(tr)[i].tier < Requests(tr)[j].tier
  /\ Cardinality(InFlight(tr)) <= 1

\* C2: in every call the tiers are tried in the order primary, secondary,
\* bundled file, embedded fallback; a tier is requested only right after
\* the tier before it has failed, at most one request is in flight, no tier
\* is requested twice and none after a success.
C2_Sequential ==
  /\ \A c \in Calls :
       /\ Sequential(trace[c])
       /\ pc[c] \in {"t1", "t2", "t3"} =>
            InFlight(trace[c]) = {CASE pc[c] = "t1" -> 1 [] pc[c] = "t2" -> 2
                                    [] OTHER -> 3}
       /\ pc[c] \notin {"t1", "t2", "t3"} => InFlight(trace[c]) = {}
  /\ Sequential(last.trace)
  /\ InFlight(last.trace) = {}

\* a call went through all four tiers while another call was in flight
C2_Witness ==
  /\ Len(last.trace) = 7
  /\ EndTier(last.trace) = 4
  /\ \E c \in Calls : pc[c] = "t2"

\* C3 as stated (its safety part): a call never ends with an exception, and
\* the step in which a call ends leaves race cards, the fallback cards or
\* the 'No races found' message in the list, not the loading placeholder.
C3_EndsRendered ==
  [][\A c \in Calls :
       (pc[c] # pc'[c] /\ pc'[c] \notin {"t1", "t2", "t3"}) =>
          /\ last'.call = c /\ last'.how = "returned"
          /\ listEl => scheduleList'.kind \in {"cards", "mock", "none"}]_vars

Distinct(s) == \A i, j \in 1..Len(s) : i # j => s[i] # s[j]

\* C4: the step in which the third tier of a call fails ends the call
\* normally with the fallback list: exactly three cards, rounds 1, 2, 3,
\* three different countries, whatever the requested year.
C4_Fallback ==
  [][\A c \in Calls :
       (pc[c] # pc'[c] /\ last'.call = c /\ Ev(3, "fail") \in EvsOf(last'.trace)) =>
          /\ last'.how = "returned"
          /\ last'.op = "renderMock"
          /\ listEl =>
               /\ scheduleList'.kind = "mock"
               /\ Len(scheduleList'.cards) = 3
               /\ [i \in 1..3 |-> scheduleList'.cards[i].round] = <<1, 2, 3>>
               /\ Distinct([i \in 1..3 |-> scheduleList'.cards[i].country])
               /\ Distinct([i \in 1..3 |-> scheduleList'.cards[i].name])]_vars

\* all three tiers failed for a call of the season after the default one
C4_Witness ==
  /\ last.op = "renderMock"
  /\ last.year = DefaultYear + 1
  /\ scheduleList.kind = "mock"

\* the trace of call 1, in progress or ended
Trace1 == IF last.call = 1 THEN last.trace ELSE trace[1]

\* what backend.getRaceSchedule handed to call 1: the cached answer or the
\* answer under study
PrimaryData == IF Ev(1, "cached") \in EvsOf(Trace1) THEN cache.raceSchedule
               ELSE input.body

\* an answer was received, its success flag is set, its race list is
\* present and not empty
GoodPrimary(d) ==
  d.net = "ok" /\ d.success /\ d.races.kind = "list" /\ d.races.items # <<>>

\* C5: the primary result is used if and only if an answer was received
\* with the success flag set and a non-empty race list; in every other
\* case the secondary source is requested.
C5_PrimaryUsedIff ==
  (input.tier = 1 /\ \E e \in EvsOf(Trace1) : e.tier = 1 /\ e.ev \in {"ok", "fail"}) =>
     /\ Ev(1, "ok") \in EvsOf(Trace1) <=> GoodPrimary(PrimaryData)
     /\ GoodPrimary(PrimaryData) =>
          /\ last.call = 1
          /\ last.source = "backend-fastf1"
          /\ last.accepted = PrimaryData.races
     /\ ~ GoodPrimary(PrimaryData) =>
          /\ pc[1] = "t2"
          /\ Ev(2, "req") \in EvsOf(Trace1)

\* an answer with a race list but success false sent the call to tier 2
C5_Witness ==
  /\ input.tier = 1
  /\ input.body.net = "ok"
  /\ ~ input.body.success
  /\ input.body.races.items # <<>>
  /\ pc[1] = "t2"

\* the candidates of a secondary body in probing order
CandSeq(b) == <<b.top, b.races, b.data, b.schedule>>

\* the first candidate that is a list
FirstList(b) ==
  LET ok == {i \in 1..4 : CandSeq(b)[i].kind = "list"}
  IN  IF ok = {} THEN Absent
      ELSE CandSeq(b)[CHOOSE i \in ok : \A j \in ok : i <= j]

\* the first candidate that is a non-empty list
FirstNonEmptyList(b) ==
  LET ok == {i \in 1..4 : CandSeq(b)[i].kind = "list" /\ CandSeq(b)[i].items # <<>>}
  IN  IF ok = {} THEN Absent
      ELSE CandSeq(b)[CHOOSE i \in ok : \A j \in ok : i <= j]

\* the name of an event: the first present of raceName, name, grandPrix, title
NameFields(e) == <<e.raceName, e.name, e.grandPrix, e.title>>

Plausible(e) ==
  /\ ~ e.isNull
  /\ \E i \in 1..4 :
       /\ NameFields(e)[i] \notin {"", "Unknown", "unknown"}
       /\ \A j \in 1..(i - 1) : NameFields(e)[j] = ""

SecondaryAnswered == input.tier = 2 /\ pc[1] # "t2"
SecondaryAccepted == last.call = 1 /\ last.source = "rapidapi"
SecondaryRejected == /\ Ev(2, "fail") \in EvsOf(Trace1)
                     /\ Ev(3, "req") \in EvsOf(Trace1)

\* C6 as stated: the list is the first candidate that is a non-empty list,
\* an empty candidate being skipped; so whenever that candidate has a
\* plausible first event, it is the list the call accepts.
C6_FirstNonEmpty ==
  (SecondaryAnswered /\ input.body.net = "ok") =>
     LET f == FirstNonEmptyList(input.body) IN
     (f.kind = "list" /\ Plausible(f.items[1])) =>
        SecondaryAccepted /\ last.accepted = f

\* C6 amended: the list is the first candidate, in the order top-level,
\* races, data, schedule, that is a list, empty or not; when that list is
\* empty (or no candidate is a list) the secondary source fails and the
\* bundled file is requested, whatever later candidates hold.
C6_FirstList ==
  (SecondaryAnswered /\ input.body.net = "ok") =>
     LET f == FirstList(input.body) IN
     /\ SecondaryAccepted => last.accepted = f /\ f.items # <<>>
     /\ (f.kind # "list" \/ f.items = <<>>) => SecondaryRejected

\* an empty races list before a non-empty, plausible data list: rejected
C6_Witness ==
  /\ SecondaryAnswered
  /\ input.body.races = ListOf(<<>>)
  /\ input.body.data.items # <<>>
  /\ Plausible(input.body.data.items[1])
  /\ pc[1] = "t3"

\* C7: a secondary list is accepted only if one of its events has a name
\* (the first present of raceName, name, grandPrix, title) other than
\* "Unknown" and "unknown"; when no event has one, or the request fails,
\* the bundled file is requested.
C7_PlausibleOnly ==
  SecondaryAnswered =>
     LET f == FirstList(input.body) IN
     /\ SecondaryAccepted =>
          \E i \in 1..Len(last.accepted.items) : Plausible(last.accepted.items[i])
     /\ (\/ input.body.net # "ok"
         \/ \A i \in 1..Len(f.items) : ~ Plausible(f.items[i])) => SecondaryRejected

\* a list whose first event is a placeholder was accepted for its second
C7_Witness ==
  /\ SecondaryAccepted
  /\ input.tier = 2
  /\ Len(last.accepted.items) = 2
  /\ last.accepted.items[1].raceName = "unknown"
  /\ Plausible(last.accepted.items[2])

\* C8: the bundled file is requested exactly when the primary and the
\* secondary source have both failed; a file that loads with a body is
\* accepted as it is (its races property, or [] without one), plausible or
\* not; a file that fails to load or parse, or whose body is null, gives
\* the embedded fallback.
C8_FileAsIs ==
  /\ \A c \in Calls :
       LET evs == EvsOf(IF last.call = c THEN last.trace ELSE trace[c]) IN
       Ev(3, "req") \in evs <=> (Ev(1, "fail") \in evs /\ Ev(2, "fail") \in evs)
  /\ (input.tier = 3 /\ pc[1] # "t3") =>
       IF input.body.net = "ok"
         THEN /\ last.source = "manual-json"
              /\ last.accepted = IF input.body.races.kind = "absent"
                                   THEN ListOf(<<>>) ELSE input.body.races
         ELSE /\ last.op = "renderMock"
              /\ scheduleList = Mock
              /\ last.how = "returned"

\* a file whose only event has a placeholder name was accepted and rendered
C8_Witness ==
  /\ input.tier = 3
  /\ last.source = "manual-json"
  /\ Len(last.accepted.items) = 1
  /\ last.accepted.items[1].raceName = "unknown"
  /\ last.op = "renderSchedule"
  /\ scheduleList.kind = "cards"

\* the year C9 gives an event: that of its date, the current year when the
\* date does not parse or there is none
DateFields(e) == <<e.date, e.raceDate, e.startDate>>

ClaimedYear(e) ==
  LET present == {i \in 1..3 : DateFields(e)[i] # 0} IN
  IF present # {}
    THEN LET d == DateFields(e)[CHOOSE i \in present : \A j \in present : i <= j]
         IN  IF d = BadDate THEN FullYear(now, tz)
             ELSE FullYear(DateInstant(d), tz)
  ELSE IF e.year # 0 THEN e.year
  ELSE FullYear(now, tz)

\* C9 as stated: of a secondary or tertiary list the filter keeps exactly
\* the events whose year is the requested one, an event with an unparsable
\* date counting for the current year.
C9_YearFilter ==
  (/\ input.tier \in {2, 3}
   /\ last.call = 1
   /\ last.source \in {"rapidapi", "manual-json"}
   /\ ~ Malformed(last.accepted)) =>
     last.races = SelectSeq(last.accepted.items, LAMBDA e : ClaimedYear(e) = last.year)

\* C10 as stated: the cards of renderSchedule are in ascending order of the
\* start instants parseRaceDate returned (an event without a resolvable
\* instant counting as last).
C10_Ascending ==
  scheduleList.kind = "cards" =>
     \A i \in 1..(Len(scheduleList.cards) - 1) :
        \/ scheduleList.cards[i + 1].instant = NaN
        \/ /\ scheduleList.cards[i].instant # NaN
           /\ scheduleList.cards[i].instant <= scheduleList.cards[i + 1].instant

\* the far-future sentinel, new Date('2099-12-31')
Sentinel == DateInstant((SentinelYear - DefaultYear) * 365 + 365)

\* C11 as stated: the start instant derived for a race object is never an
\* invalid instant; an object whose date is present but unparsable gets the
\* sentinel and the status Upcoming.
C11_Resolvable ==
  shown # NoShown =>
    /\ shown.instant # NaN
    /\ (event.race.date = BadDate) => (shown.instant = Sentinel /\ shown.status = "Upcoming")

\* the field combinations of parseRaceDate in their order: whether each is
\* present and the instant it denotes
Combos(r) ==
  << [present |-> r.date # 0 /\ r.time # 0, value |-> DateTimeParse(r.date, r.time)],
     [present |-> r.date # 0, value |-> DateParse(r.date)],
     [present |-> r.raceDate # 0 /\ r.raceTime # 0,
      value |-> DateTimeParse(r.raceDate, r.raceTime)],
     [present |-> r.raceDate # 0, value |-> DateParse(r.raceDate)],
     [present |-> r.startDate # 0 /\ r.startTime # 0,
      value |-> DateTimeParse(r.startDate, r.startTime)],
     [present |-> r.startDate # 0, value |-> DateParse(r.startDate)],
     [present |-> r.datetime # 0,
      value |-> IF r.datetime = BadDate THEN NaN ELSE r.datetime - tz] >>

\* C12: the start instant is that of the first field combination present, in
\* the order date+time, date, raceDate+raceTime, raceDate,
\* startDate+startTime, startDate, datetime; no later combination is used
\* when an earlier one is present; with none present it is the sentinel.
C12_FirstCombination ==
  shown # NoShown =>
    LET cs == Combos(event.race)
        present == {i \in 1..Len(cs) : cs[i].present}
    IN  /\ present = {} => shown.instant = Sentinel
        /\ \A i \in present :
             (\A j \in present : i <= j) => shown.instant = cs[i].value

\* raceDate+raceTime won over startDate and datetime, no date being present
C12_Witness ==
  /\ shown # NoShown
  /\ event.race.date = 0
  /\ event.race.raceDate = 70 /\ event.race.raceTime # 0
  /\ event.race.startDate # 0 /\ event.race.datetime # 0
  /\ shown.instant = DateInstant(70) + 600

\* the first present (non-empty) string of a priority list, else a default
RECURSIVE FirstPresent(_, _)
FirstPresent(seq, default) ==
  IF seq = <<>> THEN default
  ELSE IF Head(seq) # "" THEN Head(seq)
  ELSE FirstPresent(Tail(seq), default)

\* C13: name, country, locality and round shown for a race object are each
\* the first present value of their priority list: name from raceName, name,
\* grandPrix, title, circuit, else "Race n"; country from country,
\* Circuit.Location.country, location.country, location, else "Unknown";
\* locality from locality, Circuit.Location.locality, location.city,
\* track.location, circuit, else empty; round from round, roundNumber, else
\* n, where n is the position in the sorted list counted from 1.
C13_FirstPresent ==
  shown # NoShown =>
    LET r == event.race
        n == event.index + 1
    IN  /\ shown.name = FirstPresent(<<r.raceName, r.name, r.grandPrix, r.title, r.circuit>>,
                                     "Race " \o ToString(n))
        /\ shown.country = FirstPresent(<<r.country, r.circuitCountry, r.locCountry,
                                          locationValue(r)>>, "Unknown")
        /\ shown.locality = FirstPresent(<<r.locality, r.circuitLocality, r.locCity,
                                           r.trackLocation, r.circuit>>, "")
        /\ shown.round = IF r.round # 0 THEN r.round
                         ELSE IF r.roundNumber # 0 THEN r.roundNumber ELSE n

\* the country came from location.country, after two absent fields and
\* before the location object itself
C13_Witness ==
  /\ shown # NoShown
  /\ event.race.country = "" /\ event.race.circuitCountry = ""
  /\ event.race.locCountry = "BH" /\ event.race.locCity # ""
  /\ shown.country = "BH"
  /\ shown.locality = "Manama"

StatusAt(c, t) == IF c.instant # NaN /\ c.instant < t THEN "Done" ELSE "Upcoming"

\* a card is shown as Upcoming although its start instant has passed
StaleCard ==
  /\ scheduleList.kind = "cards"
  /\ \E i \in 1..Len(scheduleList.cards) :
       /\ scheduleList.cards[i].status = "Upcoming"
       /\ StatusAt(scheduleList.cards[i], now) = "Done"

\* C15 as stated: on a page left open, a card shown as Upcoming whose start
\* instant has passed eventually shows Done, without the user asking for a
\* new load.
C15_EventuallyDone == StaleCard ~> ~ StaleCard

\* C15 amended: the status of every card is derived from the clock at the
\* time of the render, in every render; cards are rendered only in the step
\* that ends a schedule load, and the passing of time alone leaves the list,
\* the stale status included, as it is.
C15_StatusAtRender ==
  [][/\ (scheduleList' # scheduleList /\ scheduleList'.kind = "cards") =>
          /\ \E c \in Calls : pc[c] # "ended" /\ pc'[c] = "ended"
          /\ \A i \in 1..Len(scheduleList'.cards) :
               scheduleList'.cards[i].status = StatusAt(scheduleList'.cards[i], now')
     /\ now' # now => scheduleList' = scheduleList]_vars

\* after the start of a shown event had passed a later load rendered it Done
C15_Witness ==
  /\ scheduleList.kind = "cards"
  /\ ticks > 0
  /\ last.call > 1
  /\ last.op = "renderSchedule"
  /\ Len(scheduleList.cards) = 1
  /\ scheduleList.cards[1].status = "Done"
  /\ scheduleList.cards[1].instant = DateInstant(68) + 900

\* a schedule is cached, it is for year y and it was stored less than five
\* minutes ago
FreshFor(y) ==
  /\ cache.raceSchedule # NoResp
  /\ cache.raceSchedule.year = y
  /\ now - cache.cacheTime < 5

\* C18: in the step in which a load calls getRaceSchedule(year), the cached
\* schedule is returned, with no request, exactly when a schedule is cached
\* for that year and was stored less than 5 minutes ago; otherwise exactly
\* one request is issued; the call itself leaves the cache as it is.
C18_CacheOnlyFresh ==
  [][(input.tier = 1 /\ pc[1] = "idle" /\ pc'[1] # "idle") =>
       LET tr == IF pc'[1] = "ended" THEN last'.trace ELSE trace'[1] IN
       /\ cache' = cache
       /\ FreshFor(seasonSelect) <=> Ev(1, "cached") \in EvsOf(tr)
       /\ FreshFor(seasonSelect) => Ev(1, "req") \notin EvsOf(tr)
       /\ (pc'[1] = "ended" /\ last'.source = "backend-fastf1") =>
            last'.accepted = cache.raceSchedule.races
       /\ ~ FreshFor(seasonSelect) =>
            /\ pc'[1] = "t1"
            /\ trace'[1] = <<Ev(1, "req")>>]_vars

\* a schedule cached a minute ago for the season after the default one was
\* returned without a request
C18_Witness ==
  /\ input.tier = 1
  /\ seasonSelect = DefaultYear + 1
  /\ cache.cacheTime = now - 1
  /\ last.call = 1
  /\ last.source = "backend-fastf1"
  /\ last.trace = <<Ev(1, "cached"), Ev(1, "ok")>>

\* the weather request failed in one of the ways the claim lists
WeatherFailed(resp) ==
  \/ resp.net = "error"
  \/ resp.net = "answer" /\ ~ resp.ok
  \/ resp.net = "answer" /\ ~ (resp.body = "object" /\ resp.temp.kind = "number")

\* C19: on any failure of the weather request (network error, non-2xx
\* status, or a response without a numeric current.temperature_2m) the
\* weather element shows the hardcoded fallback text.
C19_FallbackOnFailure ==
  (weather.pc = "done" /\ weather.el /\ WeatherFailed(weather.resp))
    => weather.text = FallbackTemp

\* the answer is one of those for which the claim promises the mock items
NewsFailed(resp) == ~ newsUsable(resp)

\* the carousel entries the claim promises for a non-empty list
ClaimedEntry(n) ==
  [newsEntry(n) EXCEPT !.category = IF n.source \in DOMAIN categoryMap
                                    THEN categoryMap[n.source] ELSE "F1 News"]

\* C20: loadNews ends with a non-empty carousel: for a non-empty list the
\* first at most 4 items, live, each with the category and emoji of its
\* source from the table or the literal defaults; for a request error,
\* non-2xx status, unparsable body, non-list or empty list exactly the 4 mock
\* items, not live.
C20_LiveOrMock ==
  (news.pc = "done" /\ news.track) =>
    /\ Len(news.slides) > 0
    /\ newsUsable(news.resp) =>
         /\ news.live
         /\ Len(news.slides) = Len(FirstShown(news.resp.body.items))
         /\ \A i \in 1..Len(news.slides) :
              news.slides[i] = ClaimedEntry(FirstShown(news.resp.body.items)[i])
    /\ NewsFailed(news.resp) => (news.slides = getMockNewsData /\ ~ news.live)

\* C20 (amended): with the carousel on the page loadNews ends with a
\* non-empty carousel; a non-empty list whose first at most 4 items are
\* objects with string urls is shown live, item by item, with the table's
\* category (the source text itself when the table has no entry, 'F1 News'
\* only when there is no source) and emoji (newspaper by default); every
\* other answer shows exactly the 4 mock items, not live.
C20_LiveOrMockAmended ==
  (news.pc = "done" /\ news.track) =>
    LET l == news.resp.body.items
        good == newsUsable(news.resp) /\ ~ mapThrows(l) /\ ~ renderThrows(l)
    IN /\ Len(news.slides) > 0
       /\ good =>
            /\ news.live
            /\ Len(news.slides) = Len(FirstShown(l))
            /\ Len(news.slides) <= NewsShown
            /\ \A i \in 1..Len(news.slides) :
                 LET n == FirstShown(l)[i]
                 IN /\ news.slides[i].title = Or2(n.title, "F1 News")
                    /\ news.slides[i].url = Or2(n.url, "#")
                    /\ news.slides[i].image =
                         (IF n.source \in DOMAIN emojiMap
                          THEN emojiMap[n.source] ELSE "newspaper")
                    /\ news.slides[i].category =
                         (IF n.source \in DOMAIN categoryMap
                          THEN categoryMap[n.source]
                          ELSE IF n.source # "" THEN n.source ELSE "F1 News")
       /\ ~ good => (news.slides = getMockNewsData /\ ~ news.live)

\* a list of five items, the fourth from a source outside the table, shown
\* live as its first four
C20_Witness ==
  /\ news.pc = "done" /\ news.track /\ news.live
  /\ newsUsable(news.resp)
  /\ Len(news.resp.body.items) = 5
  /\ Len(news.slides) = 4
  /\ news.slides[4].category = "motorsport"
  /\ news.slides[1].category = "Race News"

\* the start instants of the events of call s that are after the time the
\* call took
After(s) ==
  {parseRaceDate(s.races[i]) : i \in {j \in 1..Len(s.races) :
      parseRaceDate(s.races[j]) # NaN /\ parseRaceDate(s.races[j]) > s.now0}}

Earliest(S) == CHOOSE x \in S : \A y \in S : x <= y

\* the backend's next race is used: it has success, a race and a countdown
\* above zero
BackendChosen(resp) ==
  /\ getNextRaceReturns(resp)
  /\ resp.race.present
  /\ resp.countdown.present
  /\ resp.countdown.total_seconds > 0

C17_OneTimer ==
  /\ Cardinality(timers) <= 1
  /\ \A t \in timers : t.id = countdownInterval

\* two loads have each selected a target, the backend's and then a local one
C17_Witness ==
  /\ \E c, d \in Calls :
       /\ countdownCall[c].decision.kind = "backend"
       /\ countdownCall[d].decision.kind = "local"
  /\ Cardinality(timers) = 1
  /\ \E t \in timers : t.kind = "local"

ShownInYear(y) ==
  \A i \in 1..Len(scheduleList.cards) :
     FullYear(scheduleList.cards[i].instant, tz) = y

HasDateField(r) == r.date # 0 \/ r.raceDate # 0 \/ r.startDate # 0

AllEnded == \A c \in Calls : pc[c] \in {"idle", "ended"}

\* C27: when several loads overlap, then once all have completed the list and
\* its heading show the result of the most recently requested load: the year
\* in the heading of a rendered schedule is the year requested last, which
\* is the value of the season selector.
C27_LatestShown ==
  (AllEnded /\ listEl /\ last.how = "returned" /\ last.op = "renderSchedule") =>
     heading = seasonSelect

\* the year of the load whose call c takes a step
YearOfStep(c) == IF pc'[c] = "ended" THEN last'.year ELSE year'[c]

\* C25: a step of a schedule load never touches the timer, its target or
\* the two displays; a load for a year other than the current one starts no
\* countdown selection, and a selection is started only by a load for the
\* current year that ends with a non-empty list.
C25_OtherYearLeavesCountdown ==
  [][\A c \in Calls :
       pc'[c] # pc[c] =>
         /\ UNCHANGED <<countdown, countdownInterval, timers, polls>>
         /\ YearOfStep(c) # currentYear => UNCHANGED countdownCall
         /\ countdownCall'[c] # countdownCall[c] =>
              /\ last'.call = c
              /\ last'.year = currentYear
              /\ last'.races # <<>>]_vars

\* the schedule of the next season has been loaded and rendered while a
\* countdown timer was running
C25_Witness ==
  /\ last.year = DefaultYear + 1
  /\ last.op = "renderSchedule"
  /\ countdownCall[last.call].pc = "off"
  /\ timers # {}
  /\ countdown.text # ""

\* the call whose decision was made last
LatestDecision ==
  CHOOSE c \in Calls :
    /\ countdownCall[c].pc = "done"
    /\ \A d \in Calls : countdownCall[d].order <= countdownCall[c].order

\* C28: once countdown selection has made its latest decision, the display
\* keeps reflecting it: 'Season Ended' stays, and a local target keeps its
\* timer and its text; no timer or poll of an earlier target overwrites the
\* display or replaces the timer.
C28_LatestDecisionKept ==
  (\E c \in Calls : countdownCall[c].pc = "done") =>
    LET s == countdownCall[LatestDecision] IN
    /\ s.decision.kind = "ended" => countdown.text = "Season Ended"
    /\ s.decision.kind = "local" =>
         /\ timers = {Timer(countdownInterval, "local", s.decision.target,
                            NoBackendRace)}
         /\ countdown.text = LocalText(s.decision.target, now)

\* C21: submitJoinClubForm never throws; without a write token no request
\* is sent and the result has success false; with a token a request error
\* or a status that is not 2xx gives success false, and success true comes
\* from a 2xx answer only
C21_WriteNeverThrows ==
  /\ ~sanity.writeToken => joinForm.requests = 0
  /\ \A i \in 1..Len(joinForm.done) :
       LET s == joinForm.done[i]
       IN  /\ s.returns # "throws"
           /\ (sanity.defined /\ ~sanity.writeToken) => s.returns = "failure"
           /\ s.write \in {"error", "http"} => s.returns = "failure"
           /\ s.returns = "success" => s.write \in {"unparsable", "ok"}

\* a rejected write and an accepted one, both with a token
C21_Witness ==
  /\ sanity.writeToken
  /\ \E i, j \in 1..Len(joinForm.done) :
       /\ joinForm.done[i].write = "http" /\ joinForm.done[i].returns = "failure"
       /\ joinForm.done[j].write = "ok" /\ joinForm.done[j].returns = "success"

\* C22: every submission of the join-club form shows the success message
\* exactly once and resets the form, however the CMS write ended; no other
\* message is shown
C22_WelcomeOnceAndReset ==
  \A i \in 1..Len(joinForm.done) :
    /\ joinForm.done[i].alerts = <<Welcome>>
    /\ joinForm.done[i].resets = 1

\* a submission whose write failed, then one whose write succeeded
C22_Witness ==
  /\ Len(joinForm.done) = 2
  /\ joinForm.done[1].returns = "failure" /\ joinForm.done[1].write = "error"
  /\ joinForm.done[2].returns = "success"

\* the questions whose first answer was the right one
FirstRight ==
  {q \in 1..Len(questions) :
     quiz.picks[q] # <<>> /\ quiz.picks[q][1] = questions[q].correct}

\* C29: each question of the quiz is answered at most once, its buttons
\* being disabled by its first answer; the score is the number of questions
\* whose first answer was the right one, and lies between 0 and the number
\* of questions
C29_QuizScore ==
  /\ \A q \in 1..Len(questions) :
       /\ Len(quiz.picks[q]) <= 1
       /\ quiz.disabled[q] <=> Len(quiz.picks[q]) = 1
  /\ quiz.score = Cardinality(FirstRight)
  /\ 0 <= quiz.score /\ quiz.score <= Len(questions)

\* every question answered, one of them wrongly
C29_Witness ==
  /\ \A q \in 1..Len(questions) : quiz.disabled[q]
  /\ quiz.score = 2
  /\ quiz.result = "Score: 2/3"

\* the sections without the class hidden
visibleSections == Sections \ navigation.hidden

\* C30: after any sequence of navigation events exactly one page section is
\* visible and currentSection is its id; a hash that names no element shows
\* the home section
C30_OneSectionVisible ==
  navigation.pc = "routed" =>
    /\ visibleSections = {navigation.currentSection}
    /\ navigation.route = "nothing" => visibleSections = {"home"}

====
